---- MODULE Spec2Model ----
(***************************************************************************)
(* Authentication and session core of the to-do application:               *)
(* RateLimiter, InputValidator, token codec, session store and the         *)
(* register / login / logout / whoami / task handlers built on them.       *)
(*                                                                         *)
(* Strings are sequences of one-character strings.  Times are integer      *)
(* milliseconds as returned by Date.now().                                 *)
(***************************************************************************)
EXTENDS Integers, Sequences, FiniteSets, TLC

VARIABLES
    now,        \* Date.now(), milliseconds
    attempts,   \* RateLimiter.attempts : key -> [count, resetTime]
    rateMax,    \* maxAttempts passed to checkRate by the rate-limiter scenarios
    rateWin,    \* windowMs passed to checkRate by the rate-limiter scenarios
    rq,         \* in-flight requests of the concurrency scenarios
    opened,     \* history: key -> time its current window was opened
    admitted,   \* history: key -> number of calls allowed since `opened`
    allowedLog, \* history: key -> times of the allowed calls of the last windowMs
    lastRate,   \* history: the last checkRate call and what it returned
    backend,    \* "d1" (SQL database) or "memory" (development MemoryDatabase)
    users,      \* the users table, in insertion order
    sessions,   \* the key-value store: key -> [value, expires]
    issued,     \* the tokens login has handed out in a Set-Cookie
    revoked,    \* history: tokens logged out and not re-created by a login since
    last,       \* the last request handled and its response
    reqs,       \* number of register and login requests handled so far
    ticks,      \* number of clock steps taken so far
    made,       \* history: the createJWT / hashPassword calls made and their results
    taskState,  \* browser: the state of useTaskStore
    authState,  \* browser: the state of useAuthStore
    server,     \* what the API the browser talks to holds: tasks and the session
    pending,    \* browser: the store calls whose promise has not settled
    started,    \* number of store calls started so far
    settled     \* history: the store call that settled last

rateOnly == <<rateMax, rateWin, rq, opened, admitted, allowedLog, lastRate>>
authOnly == <<backend, users, sessions, issued, revoked, last, reqs, ticks>>
clientOnly == <<taskState, authState, server, pending, started, settled>>
vars == <<now, attempts, rateOnly, authOnly, made, clientOnly>>

(***************************************************************************)
(* The browser's stores before any call.                                   *)
(***************************************************************************)
\* useTaskStore as created: no tasks, not loading, no error (<<>> is null).
TaskStoreInitial == [tasks |-> <<>>, isLoading |-> FALSE, error |-> <<>>]

\* useAuthStore as created: no user (<<>> is null).
AuthStoreInitial == [user |-> <<>>, isAuthenticated |-> FALSE, isLoading |-> FALSE]

\* The API before any request of the browser: no task rows, no session.
ServerInitial == [tasks |-> <<>>, nextId |-> 1, signedIn |-> FALSE]

\* A store call: n numbers the calls, stage is "sent" until the API has
\* answered and "answered" until the promise settles; status is the HTTP
\* status of the response, -1 when fetch rejected; tasks, task and user are
\* the members of the response body (<<>> when absent).
NoCall ==
    [n |-> 0, op |-> "none", id |-> 0, title |-> "", good |-> FALSE,
     stage |-> "none", status |-> 0, tasks |-> <<>>, task |-> <<>>, user |-> <<>>]

\* The browser takes no part in the server-side scenarios.
ClientIdle ==
    /\ taskState = TaskStoreInitial
    /\ authState = AuthStoreInitial
    /\ server = ServerInitial
    /\ pending = {}
    /\ started = 0
    /\ settled = NoCall

(***************************************************************************)
(* Bounds of the model.                                                    *)
(***************************************************************************)
MaxRateAttempts == 3    \* maxAttempts ranges over 1..MaxRateAttempts
MaxRateWindow == 2      \* windowMs ranges over 1..MaxRateWindow
MaxRateTime == 7        \* the rate-limiter scenarios run until this time
NumRateRequests == 2    \* concurrently handled requests
MaxLogins == 2          \* login requests of one session-lifecycle run
MaxLoginAttempts == 12  \* login requests of one run of the login rate limits
MaxTicks == 2           \* clock steps of one run of the handlers
MaxRegisters == 6       \* register requests of one run of registration
NumRegRequests == 3     \* concurrently handled register requests
MaxTokens == 1          \* tokens made in one run of the token codec
MaxHashes == 2          \* hashes made in one run of the password hasher
MaxFaultRegisters == 2  \* register requests of one run with failing stores
RuleMinLength == 3      \* the minLength of the validator's rules that have one
RuleMaxLength == 4      \* the maxLength of the validator's rules that have one
ClockStepMs == 500      \* the short clock step of the session lifecycle

Max(a, b) == IF a >= b THEN a ELSE b
Min(a, b) == IF a <= b THEN a ELSE b

(***************************************************************************)
(* RateLimiter                                                             *)
(***************************************************************************)
\* A Map.set on the attempts table.
MapSet(map, key, value) ==
    [k \in DOMAIN map \cup {key} |-> IF k = key THEN value ELSE map[k]]

\* Bug variant: the limit test uses > instead of >=.
checkRate_limitOffByOne(att, key, maxAttempts, windowMs, t) ==
    IF key \notin DOMAIN att \/ t > att[key].resetTime
    THEN [allowed |-> TRUE,
          attempts |-> MapSet(att, key, [count |-> 1, resetTime |-> t + windowMs])]
    ELSE IF att[key].count > maxAttempts
         THEN [allowed |-> FALSE, attempts |-> att]
         ELSE [allowed |-> TRUE,
               attempts |-> [att EXCEPT ![key].count = @ + 1]]

\* Bug variant: the window is reset already at now = resetTime.
checkRate_earlyReset(att, key, maxAttempts, windowMs, t) ==
    IF key \notin DOMAIN att \/ t >= att[key].resetTime
    THEN [allowed |-> TRUE,
          attempts |-> MapSet(att, key, [count |-> 1, resetTime |-> t + windowMs])]
    ELSE IF att[key].count >= maxAttempts
         THEN [allowed |-> FALSE, attempts |-> att]
         ELSE [allowed |-> TRUE,
               attempts |-> [att EXCEPT ![key].count = @ + 1]]

\* Bug variant: a rejection restarts the window of the key.
checkRate_rejectionExtends(att, key, maxAttempts, windowMs, t) ==
    IF key \notin DOMAIN att \/ t > att[key].resetTime
    THEN [allowed |-> TRUE,
          attempts |-> MapSet(att, key, [count |-> 1, resetTime |-> t + windowMs])]
    ELSE IF att[key].count >= maxAttempts
         THEN [allowed |-> FALSE,
               attempts |-> [att EXCEPT ![key].resetTime = t + windowMs]]
         ELSE [allowed |-> TRUE,
               attempts |-> [att EXCEPT ![key].count = @ + 1]]

\* RateLimiter.checkRate at time t: the value returned and the table afterwards.
\* The body has no await, so it runs to completion without interleaving.
checkRate(att, key, maxAttempts, windowMs, t) ==
    IF key \notin DOMAIN att \/ t > att[key].resetTime
    THEN [allowed |-> TRUE,
          attempts |-> MapSet(att, key, [count |-> 1, resetTime |-> t + windowMs])]
    ELSE IF att[key].count >= maxAttempts
         THEN [allowed |-> FALSE, attempts |-> att]
         ELSE [allowed |-> TRUE,
               attempts |-> [att EXCEPT ![key].count = @ + 1]]

\* RateLimiter.getRemainingTime at time t.
getRemainingTime(att, key, t) ==
    IF key \notin DOMAIN att THEN 0 ELSE Max(0, att[key].resetTime - t)

(***************************************************************************)
(* Rate-limiter scenarios: requests that call checkRate on a few keys with *)
(* one (maxAttempts, windowMs) configuration while the clock advances.     *)
(***************************************************************************)
\* Two keys: enough to tell a key's own record from the others'.
RateKeys == {<<"key", "1">>, <<"key", "2">>}
\* The key the racing requests share.
SharedKey == <<"key", "1">>
RateRequests == 1..NumRateRequests

IdleRequest == [pc |-> "idle", key |-> <<>>, allowed |-> FALSE, nth |-> 0, win |-> 0]
NoRateCall == [op |-> "none", key |-> <<>>, t |-> 0, allowed |-> FALSE,
               wasOpen |-> FALSE, before |-> 0, tableBefore |-> <<>>]

\* The window of key k (history) is open at time t.
WindowOpen(k, t) == k \in DOMAIN opened /\ t <= opened[k] + rateWin

\* Times of the log that still lie within windowMs of time t.
RECURSIVE Prune(_, _)
Prune(log, t) ==
    IF log = <<>> THEN <<>>
    ELSE IF log[1] >= t - rateWin THEN log
    ELSE Prune(Tail(log), t)

RateInit ==
    /\ now = 0
    /\ attempts = <<>>
    /\ rateMax \in 1..MaxRateAttempts
    /\ rateWin \in 1..MaxRateWindow
    /\ rq = [r \in RateRequests |-> IdleRequest]
    /\ opened = <<>>
    /\ admitted = <<>>
    /\ allowedLog = [k \in RateKeys |-> <<>>]
    /\ lastRate = NoRateCall
    /\ made = {}
    /\ ClientIdle
    /\ backend = "d1"
    /\ users = <<>>
    /\ sessions = <<>>
    /\ issued = {}
    /\ revoked = {}
    /\ last = <<>>
    /\ reqs = <<>>
    /\ ticks = 0

\* One call rateLimiter.checkRate(k, maxAttempts, windowMs) at the current time,
\* with the history kept beside it.
CheckRateCall(k) ==
    LET res == checkRate(attempts, k, rateMax, rateWin, now)
        open == WindowOpen(k, now)
    IN /\ attempts' = res.attempts
       /\ opened' = IF res.allowed /\ ~open THEN MapSet(opened, k, now) ELSE opened
       /\ admitted' = IF ~res.allowed THEN admitted
                      ELSE IF open THEN [admitted EXCEPT ![k] = @ + 1]
                      ELSE MapSet(admitted, k, 1)
       /\ allowedLog' = IF res.allowed
                        THEN [allowedLog EXCEPT ![k] = Append(@, now)]
                        ELSE allowedLog
       /\ lastRate' = [op |-> "check", key |-> k, t |-> now, allowed |-> res.allowed,
                       wasOpen |-> open,
                       before |-> IF k \in DOMAIN admitted THEN admitted[k] ELSE 0,
                       tableBefore |-> attempts]
       /\ UNCHANGED <<clientOnly, made, now, rateMax, rateWin, authOnly>>

\* A request calls checkRate on key k and is answered (one request at a time).
RateCheck(k) ==
    /\ CheckRateCall(k)
    /\ UNCHANGED rq

\* Request r calls checkRate on the shared key: the body runs synchronously;
\* the caller resumes from its await in a later step.
RateCall(r) ==
    /\ rq[r].pc = "idle"
    /\ CheckRateCall(SharedKey)
    /\ rq' = [rq EXCEPT ![r] = [pc |-> "awaiting", key |-> SharedKey,
                                allowed |-> lastRate'.allowed,
                                nth |-> attempts'[SharedKey].count,
                                win |-> attempts'[SharedKey].resetTime]]

\* The awaiting handler of request r resumes with the result and finishes.
RateResume(r) ==
    /\ rq[r].pc = "awaiting"
    /\ rq' = [rq EXCEPT ![r] = IdleRequest]
    /\ lastRate' = NoRateCall
    /\ UNCHANGED <<clientOnly, made, now, attempts, rateMax, rateWin, opened, admitted, allowedLog, authOnly>>

\* One millisecond passes.
RateTick ==
    /\ now < MaxRateTime
    /\ now' = now + 1
    /\ allowedLog' = [k \in RateKeys |-> Prune(allowedLog[k], now + 1)]
    /\ lastRate' = NoRateCall
    /\ UNCHANGED <<clientOnly, made, attempts, rateMax, rateWin, rq, opened, admitted, authOnly>>

\* Sequential use of the limiter.
RateNext ==
    \/ \E k \in RateKeys : RateCheck(k)
    \/ RateTick

SpecRate == RateInit /\ [][RateNext]_vars

\* Concurrently handled requests racing on one key.
RaceNext ==
    \/ \E r \in RateRequests : RateCall(r)
    \/ \E r \in RateRequests : RateResume(r)
    \/ RateTick

SpecRace == RateInit /\ [][RaceNext]_vars

(***************************************************************************)
(* Claims about the rate limiter                                           *)
(***************************************************************************)

\* C6: with fixed maxAttempts n and windowMs, a key's window admits exactly its
\* first n calls: a call made while the window is open is allowed iff fewer
\* than n calls were allowed since it opened; a call on an unknown key, or made
\* strictly after opened + windowMs, is allowed and opens a fresh window with
\* count = 1 and resetTime = now + windowMs.
C6_WindowAdmitsFirstN ==
    /\ \A k \in DOMAIN attempts :
          /\ k \in DOMAIN opened
          /\ attempts[k].count = admitted[k]
          /\ admitted[k] <= rateMax
          /\ attempts[k].resetTime = opened[k] + rateWin
    /\ lastRate.op = "check" =>
          /\ lastRate.wasOpen => (lastRate.allowed <=> lastRate.before < rateMax)
          /\ ~lastRate.wasOpen =>
                /\ lastRate.allowed
                /\ attempts[lastRate.key] = [count |-> 1, resetTime |-> lastRate.t + rateWin]
                /\ opened[lastRate.key] = lastRate.t

\* C6 witness: a key whose previous window was full is allowed again, in a
\* fresh window, once the previous window has run out.
C6_Witness ==
    /\ lastRate.op = "check"
    /\ lastRate.allowed
    /\ ~lastRate.wasOpen
    /\ lastRate.before = rateMax
    /\ rateMax >= 2
    /\ lastRate.key \in DOMAIN lastRate.tableBefore

\* C7: under any interleaving of requests racing on one key, the stored count
\* and the number of calls allowed in one window never exceed maxAttempts, and
\* no two requests are admitted as the same attempt of the same window.
C7_RaceNeverExceedsMax ==
    /\ \A k \in DOMAIN attempts :
          attempts[k].count <= rateMax /\ admitted[k] <= rateMax
    /\ \A r1, r2 \in RateRequests :
          (/\ r1 # r2
           /\ rq[r1].pc = "awaiting" /\ rq[r2].pc = "awaiting"
           /\ rq[r1].allowed /\ rq[r2].allowed
           /\ rq[r1].win = rq[r2].win)
          => rq[r1].nth # rq[r2].nth
    /\ \A r \in RateRequests :
          rq[r].pc = "awaiting" /\ rq[r].allowed => rq[r].nth <= rateMax

\* C7 witness: two requests in flight on the key in one window, one admitted
\* as the last allowed attempt and the other rejected.
C7_Witness ==
    \E r1, r2 \in RateRequests :
        /\ r1 # r2
        /\ rq[r1].pc = "awaiting" /\ rq[r2].pc = "awaiting"
        /\ rateMax >= 2
        /\ rq[r1].allowed /\ rq[r1].nth = rateMax
        /\ ~rq[r2].allowed
        /\ rq[r1].win = rq[r2].win

\* C8: the number of calls allowed for one key within any interval of length
\* windowMs is at most 2 x maxAttempts (allowedLog holds the allowed calls of
\* the interval [now - windowMs, now]).
C8_BurstAtMostTwiceMax ==
    \A k \in RateKeys : Len(allowedLog[k]) <= 2 * rateMax

\* C8 witness: a burst across a window boundary admits more than maxAttempts
\* calls within windowMs.
C8_Witness ==
    \E k \in RateKeys :
        /\ rateMax >= 2
        /\ Len(allowedLog[k]) = 2 * rateMax - 1
        /\ allowedLog[k][1] < allowedLog[k][Len(allowedLog[k])]

(***************************************************************************)
(* Strings (sequences of one-character strings)                            *)
(***************************************************************************)
UpperChars == {"A", "B"}
LowerChars == {"a", "b", "c", "d", "p", "x"}
DigitChars == {"1"}
SpecialChars == {"@", "$", "!", "%", "*", "?", "&"}

\* String.prototype.toLowerCase, per character.
LowerOf(ch) == IF ch = "A" THEN "a" ELSE IF ch = "B" THEN "b" ELSE ch
toLowerCase(str) == [i \in 1..Len(str) |-> LowerOf(str[i])]

\* String.prototype.trim.
RECURSIVE TrimLeft(_)
TrimLeft(str) ==
    IF str # <<>> /\ Head(str) = " " THEN TrimLeft(Tail(str)) ELSE str
RECURSIVE TrimRight(_)
TrimRight(str) ==
    IF str # <<>> /\ str[Len(str)] = " "
    THEN TrimRight(SubSeq(str, 1, Len(str) - 1))
    ELSE str
trim(str) == TrimRight(TrimLeft(str))

\* A string of n copies of ch.
Repeat(ch, n) == [i \in 1..n |-> ch]

\* Bug variant: the pattern excludes only "@", as /^[^@]+@[^@]+\.[^@]+$/.
IsEmail_allowsSpaces(str) ==
    \E i, j \in 1..Len(str) :
        /\ 1 < i /\ i + 1 < j /\ j < Len(str)
        /\ str[i] = "@" /\ str[j] = "."
        /\ \A m \in 1..Len(str) : str[m] = "@" => m = i

\* /^[^\s@]+@[^\s@]+\.[^\s@]+$/.test(str)
IsEmail(str) ==
    \E i, j \in 1..Len(str) :
        /\ 1 < i /\ i + 1 < j /\ j < Len(str)
        /\ str[i] = "@" /\ str[j] = "."
        /\ \A m \in 1..Len(str) : str[m] # " " /\ (str[m] = "@" => m = i)

\* /^(?=.*[a-z])(?=.*[A-Z])(?=.*\d)(?=.*[@$!%*?&])[A-Za-z\d@$!%*?&]/.test(str)
IsStrongPassword(str) ==
    /\ \E i \in 1..Len(str) : str[i] \in LowerChars
    /\ \E i \in 1..Len(str) : str[i] \in UpperChars
    /\ \E i \in 1..Len(str) : str[i] \in DigitChars
    /\ \E i \in 1..Len(str) : str[i] \in SpecialChars
    /\ str # <<>>
    /\ str[1] \in LowerChars \cup UpperChars \cup DigitChars \cup SpecialChars

\* /^[a-zA-Z0-9\s\-_.]+$/.test(str)
IsDisplayName(str) ==
    /\ str # <<>>
    /\ \A i \in 1..Len(str) :
          str[i] \in LowerChars \cup UpperChars \cup DigitChars \cup {" ", "-", "_", "."}

\* RegExp.prototype.test for the patterns the handlers use.
PatternTest(pattern, str) ==
    IF pattern = "password" THEN IsStrongPassword(str)
    ELSE IF pattern = "displayName" THEN IsDisplayName(str)
    ELSE TRUE

(***************************************************************************)
(* InputValidator.  A parsed JSON object is the sequence of its            *)
(* <<name, string value>> members; a rule option that is absent is 0 or    *)
(* "none".                                                                 *)
(***************************************************************************)
Rule(field, required, type, minLength, maxLength, pattern) ==
    [field |-> field, required |-> required, type |-> type,
     minLength |-> minLength, maxLength |-> maxLength, pattern |-> pattern]

\* The object has a member of that name.
HasField(data, field) == \E i \in 1..Len(data) : data[i][1] = field

\* data[field] of an object that has the member (the last one of that name).
Field(data, field) ==
    LET i == CHOOSE m \in 1..Len(data) :
                 /\ data[m][1] = field
                 /\ \A n \in (m + 1)..Len(data) : data[n][1] # field
    IN data[i][2]

\* !value of the field's value (undefined or the empty string).
Falsy(data, field) == ~HasField(data, field) \/ Field(data, field) = <<>>

\* The checks of a truthy value, in the order of the code.
ValueErrors(rule, value) ==
    (IF rule.type = "email" /\ ~IsEmail(value)
     THEN << <<rule.field, "email">> >> ELSE <<>>)
    \o (IF rule.minLength # 0 /\ Len(value) < rule.minLength
        THEN << <<rule.field, "minLength">> >> ELSE <<>>)
    \o (IF rule.maxLength # 0 /\ Len(value) > rule.maxLength
        THEN << <<rule.field, "maxLength">> >> ELSE <<>>)
    \o (IF rule.pattern # "none" /\ ~PatternTest(rule.pattern, value)
        THEN << <<rule.field, "pattern">> >> ELSE <<>>)

\* Bug variant: the loop does not continue after the required message.
RuleErrors_noContinue(data, rule) ==
    (IF rule.required /\ (Falsy(data, rule.field) \/ trim(Field(data, rule.field)) = <<>>)
     THEN << <<rule.field, "required">> >> ELSE <<>>)
    \o (IF Falsy(data, rule.field) THEN <<>>
        ELSE ValueErrors(rule, Field(data, rule.field)))

\* The messages one rule appends, each as <<field, failing check>>.
RuleErrors(data, rule) ==
    IF rule.required /\ (Falsy(data, rule.field) \/ trim(Field(data, rule.field)) = <<>>)
    THEN << <<rule.field, "required">> >>
    ELSE IF Falsy(data, rule.field) THEN <<>>
    ELSE ValueErrors(rule, Field(data, rule.field))

RECURSIVE ValidationErrors(_, _)
ValidationErrors(data, rules) ==
    IF rules = <<>> THEN <<>>
    ELSE RuleErrors(data, Head(rules)) \o ValidationErrors(data, Tail(rules))

\* validateInput(data, rules)
validateInput(data, rules) ==
    LET errors == ValidationErrors(data, rules)
    IN [isValid |-> Len(errors) = 0, errors |-> errors]

\* The rules of POST /api/auth/login.
LoginRules ==
    << Rule("email", TRUE, "email", 0, 255, "none"),
       Rule("password", TRUE, "none", 1, 128, "none") >>

\* The rules of POST /api/auth/register.
RegisterRules ==
    << Rule("email", TRUE, "email", 0, 255, "none"),
       Rule("password", TRUE, "none", 12, 128, "password"),
       Rule("displayName", TRUE, "none", 2, 100, "displayName") >>

(***************************************************************************)
(* Bytes.  A string is the sequence of its UTF-16 code units, a code unit   *)
(* outside ASCII is named U+....  A byte of a text is named by its ASCII   *)
(* character, or by 0x.. for a byte above 0x7F.                            *)
(***************************************************************************)
\* TextEncoder.encode of one UTF-16 code unit: its UTF-8 bytes.  An unpaired
\* surrogate is encoded as the replacement character U+FFFD.
Utf8Bytes(ch) ==
    IF ch = "U+00E9" THEN <<"0xC3", "0xA9">>
    ELSE IF ch \in {"U+D800", "U+D801"} THEN <<"0xEF", "0xBF", "0xBD">>
    ELSE <<ch>>

\* TextEncoder.encode(str)
RECURSIVE TextEncode(_)
TextEncode(str) ==
    IF str = <<>> THEN <<>> ELSE Utf8Bytes(Head(str)) \o TextEncode(Tail(str))

\* The value of a byte, for the bytes the passwords are made of.
ByteCode(byte) ==
    CASE byte = "A" -> 65 [] byte = "B" -> 66 [] byte = "a" -> 97 [] byte = "b" -> 98
      [] byte = "p" -> 112 [] byte = "1" -> 49 [] byte = "!" -> 33
      [] byte = "0xC3" -> 195 [] byte = "0xA9" -> 169
      [] byte = "0xEF" -> 239 [] byte = "0xBF" -> 191 [] byte = "0xBD" -> 189
      [] OTHER -> 63

(***************************************************************************)
(* PasswordHasher.  A stored hash is the hex string of salt || derived     *)
(* key.  PBKDF2 is idealised as collision-free on passwords of at most 16  *)
(* bytes: the derived key spells out the salt and the password bytes.      *)
(***************************************************************************)
SaltBytes == 16
DerivedKeyBits == 256

HexDigits == <<"0", "1", "2", "3", "4", "5", "6", "7", "8", "9",
               "a", "b", "c", "d", "e", "f">>

\* parseInt(digit, 16) for one hexadecimal digit.
HexValue(digit) ==
    CASE digit = "0" -> 0 [] digit = "1" -> 1 [] digit = "2" -> 2 [] digit = "3" -> 3
      [] digit = "4" -> 4 [] digit = "5" -> 5 [] digit = "6" -> 6 [] digit = "7" -> 7
      [] digit = "8" -> 8 [] digit = "9" -> 9 [] digit = "a" -> 10 [] digit = "b" -> 11
      [] digit = "c" -> 12 [] digit = "d" -> 13 [] digit = "e" -> 14 [] digit = "f" -> 15

\* Array.from(bytes).map(b => b.toString(16).padStart(2, '0')).join('')
HexEncode(bytes) ==
    [i \in 1..(2 * Len(bytes)) |->
        IF i % 2 = 1 THEN HexDigits[(bytes[(i + 1) \div 2] \div 16) + 1]
        ELSE HexDigits[(bytes[i \div 2] % 16) + 1]]

\* hash.match(/.{1,2}/g).map(byte => parseInt(byte, 16)): the string is cut
\* into pairs from the left, a last single digit is a byte of its own.
HexDecode(hex) ==
    [i \in 1..((Len(hex) + 1) \div 2) |->
        IF 2 * i <= Len(hex)
        THEN (HexValue(hex[(2 * i) - 1]) * 16) + HexValue(hex[2 * i])
        ELSE HexValue(hex[(2 * i) - 1])]

\* deriveBits(PBKDF2, salt, 100000, SHA-256, keyMaterial, 256)
deriveBits(salt, passwordData) ==
    [i \in 1..(DerivedKeyBits \div 8) |->
        IF i <= Len(salt) THEN salt[i]
        ELSE IF i - Len(salt) <= Len(passwordData)
             THEN ByteCode(passwordData[i - Len(salt)])
             ELSE 0]

\* The key derivation both functions run: the password is encoded, imported
\* as key material and stretched with the salt.
PBKDF2(password, salt) == deriveBits(salt, TextEncode(password))

\* hashPassword with the random salt it drew: hex of salt || derived key.
hashPassword(password, salt) == HexEncode(salt \o PBKDF2(password, salt))

\* The constant-time comparison of verifyPassword: lengths, then bytes.
SameBytes(computedHash, storedHash) ==
    /\ Len(computedHash) = Len(storedHash)
    /\ computedHash = storedHash

\* The salt is cut off the stored bytes and re-used for the derivation.
VerifyBytes(password, hashBytes) ==
    SameBytes(PBKDF2(password, SubSeq(hashBytes, 1, Min(SaltBytes, Len(hashBytes)))),
              SubSeq(hashBytes, SaltBytes + 1, Len(hashBytes)))

\* Bug variant: the derived keys are not compared.
verifyPassword_lengthOnly(password, hash) ==
    Len(PBKDF2(password, SubSeq(HexDecode(hash), 1, Min(SaltBytes, Len(HexDecode(hash)))))) =
        Len(SubSeq(HexDecode(hash), SaltBytes + 1, Len(HexDecode(hash))))

\* verifyPassword: the hex string is parsed into bytes and verified.
verifyPassword(password, hash) == VerifyBytes(password, HexDecode(hash))

(***************************************************************************)
(* TokenCodec.  A token is the string header.payload.signature; it is      *)
(* held as the number of its dot-separated segments and the content of the *)
(* first three.  A base64url segment is held as the bytes it encodes       *)
(* (base64url is one-to-one on byte strings), the JSON text of a payload   *)
(* as the object with its string members; HMAC is idealised as tagging the *)
(* message with the key.  A byte below 0x80 is named by its ASCII          *)
(* character.                                                              *)
(***************************************************************************)
TokenLifetimeSeconds == 7 * 24 * 60 * 60
JwtHeader == "HS256.JWT"
JwtSecret == "jwt-secret"
OtherSecret == "attacker-secret"

\* The character atob yields for a byte: the one with the byte's code.
ByteChar(byte) ==
    IF byte = "0xC3" THEN "U+00C3" ELSE IF byte = "0xA9" THEN "U+00A9" ELSE byte

\* base64UrlEncode(str): the segment for the UTF-8 bytes of str.
base64UrlEncode(str) == TextEncode(str)

\* base64UrlDecode(segment): the binary string, one character per byte.
base64UrlDecode(segment) == [i \in 1..Len(segment) |-> ByteChar(segment[i])]

\* base64UrlEncode(JSON.stringify(jwtPayload))
EncodePayload(jwtPayload) ==
    [userId |-> jwtPayload.userId, email |-> base64UrlEncode(jwtPayload.email),
     iat |-> jwtPayload.iat, exp |-> jwtPayload.exp]

\* JSON.parse(base64UrlDecode(encodedPayload))
ParsePayload(segment) ==
    [userId |-> segment.userId, email |-> base64UrlDecode(segment.email),
     iat |-> segment.iat, exp |-> segment.exp]

signMessage(message, secret) == [message |-> message, secret |-> secret]

\* An empty signature segment.
EmptySegment == [message |-> <<>>, secret |-> ""]

\* A signature segment that is not base64: atob throws on it.
NotBase64 == [message |-> <<>>, secret |-> "not-base64"]

\* verifySignature; "throws" when the signature segment cannot be decoded.
verifySignature(message, signature, secret) ==
    IF signature = NotBase64 THEN "throws"
    ELSE IF signature = signMessage(message, secret) THEN "true"
    ELSE "false"

\* createJWT(payload, secret) at time t (milliseconds).
createJWT(payload, secret, t) ==
    LET nowSec == t \div 1000
        jwtPayload == [userId |-> payload.userId, email |-> payload.email,
                       iat |-> nowSec, exp |-> nowSec + TokenLifetimeSeconds]
        encodedPayload == EncodePayload(jwtPayload)
    IN [segments |-> 3, header |-> JwtHeader, payload |-> encodedPayload,
        signature |-> signMessage(<<JwtHeader, encodedPayload>>, secret)]

\* Bug variant: the signature is not checked.
verifyJWT_noSignature(token, secret, t) ==
    IF token.segments < 3 \/ token.signature = EmptySegment THEN <<>>
    ELSE IF ParsePayload(token.payload).exp < t \div 1000 THEN <<>>
    ELSE <<ParsePayload(token.payload)>>

\* Bug variant: the expiry is not checked.
verifyJWT_noExpiry(token, secret, t) ==
    IF token.segments < 3 \/ token.signature = EmptySegment THEN <<>>
    ELSE IF verifySignature(<<token.header, token.payload>>, token.signature, secret) # "true"
    THEN <<>>
    ELSE <<ParsePayload(token.payload)>>

\* Bug variant: a token that has expired this second is rejected already.
verifyJWT_expiryInclusive(token, secret, t) ==
    IF token.segments < 3 \/ token.signature = EmptySegment THEN <<>>
    ELSE IF verifySignature(<<token.header, token.payload>>, token.signature, secret) # "true"
    THEN <<>>
    ELSE IF ParsePayload(token.payload).exp <= t \div 1000 THEN <<>>
    ELSE <<ParsePayload(token.payload)>>

\* verifyJWT(token, secret) at time t: <<payload>>, or <<>> for null.  The
\* first three segments of the split are read, further ones are ignored; a
\* missing or empty one of the three is rejected; an exception thrown
\* on the way is caught and gives null.
verifyJWT(token, secret, t) ==
    IF token.segments < 3 \/ token.signature = EmptySegment THEN <<>>
    ELSE IF verifySignature(<<token.header, token.payload>>, token.signature, secret) # "true"
    THEN <<>>
    ELSE IF ParsePayload(token.payload).exp < t \div 1000 THEN <<>>
    ELSE <<ParsePayload(token.payload)>>

(***************************************************************************)
(* Relational store.  users is the table in insertion order; "d1" is the   *)
(* SQL database, "memory" the development MemoryDatabase, which matches    *)
(* statements by their text and ignores the is_active condition.           *)
(***************************************************************************)
DemoUserId == 0

\* The hash string of the seeded demo user: 64 hexadecimal digits, so 16
\* bytes of salt and a 16-byte key.
DemoHash ==
    << "b", "3", "a", "8", "e", "0", "e", "1", "f", "9", "a", "b", "1", "b", "f", "e",
       "3", "a", "3", "6", "f", "2", "3", "1", "f", "6", "7", "6", "f", "7", "8", "b",
       "b", "3", "0", "a", "5", "1", "9", "d", "2", "b", "2", "1", "e", "6", "c", "5",
       "3", "0", "c", "0", "e", "e", "e", "8", "e", "b", "b", "4", "a", "5", "d", "0" >>

\* The seeded demo user.
DemoUser ==
    [id |-> DemoUserId, email |-> <<"d", "@", "x", ".", "c">>,
     password_hash |-> DemoHash,
     display_name |-> <<"D", "e", "m", "o">>, is_active |-> TRUE]

FirstOf(rows) == IF rows = <<>> THEN <<>> ELSE <<rows[1]>>

RowsByEmail(us, bk, email) ==
    IF bk = "memory"
    THEN SelectSeq(us, LAMBDA u : u.email = email)
    ELSE SelectSeq(us, LAMBDA u : u.email = email /\ u.is_active)

\* Bug variant: the lookup finds nothing.
getUserByEmail_neverFound(us, bk, email, dbOk) == <<>>

\* Bug variant: the is_active condition is missing from the query.
getUserByEmail_anyActive(us, bk, email, dbOk) ==
    IF ~dbOk THEN <<>> ELSE FirstOf(SelectSeq(us, LAMBDA u : u.email = email))

\* getUserByEmail: <<user>> or <<>> for null; a failing store yields null.
getUserByEmail(us, bk, email, dbOk) ==
    IF ~dbOk THEN <<>> ELSE FirstOf(RowsByEmail(us, bk, email))

RowsById(us, bk, id) ==
    IF bk = "memory"
    THEN SelectSeq(us, LAMBDA u : u.id = id)
    ELSE SelectSeq(us, LAMBDA u : u.id = id /\ u.is_active)

\* getUserById: <<user>> or <<>> for null; a failing store yields null.
getUserById(us, bk, id, dbOk) ==
    IF ~dbOk THEN <<>> ELSE FirstOf(RowsById(us, bk, id))

\* crypto.randomUUID(): an id no row has.
RECURSIVE MaxId(_)
MaxId(us) == IF us = <<>> THEN 0 ELSE Max(Head(us).id, MaxId(Tail(us)))
FreshId(us) == MaxId(us) + 1

\* createUser: the user created (or <<>> for null) and the table afterwards.
\* The SQL table rejects a second row with the same email (UNIQUE).
createUser(us, bk, email, password, displayName, salt, dbOk) ==
    LET row == [id |-> FreshId(us), email |-> email,
                password_hash |-> hashPassword(password, salt),
                display_name |-> displayName, is_active |-> TRUE]
        duplicate == \E i \in 1..Len(us) : us[i].email = email
    IN IF ~dbOk \/ (bk = "d1" /\ duplicate)
       THEN [user |-> <<>>, users |-> us]
       ELSE [user |-> <<row>>, users |-> Append(us, row)]

(***************************************************************************)
(* Key-value store (MemoryKV) and the SessionStore over it.                *)
(***************************************************************************)
SessionTtlSeconds == 7 * 24 * 60 * 60

SessionKey(token) == <<"session", token>>

\* MemoryKV.get at time t: <<value>> or <<>> for null, and the store after the
\* lazy deletion of an expired item.
KvGet(store, key, t) ==
    IF key \notin DOMAIN store THEN [value |-> <<>>, store |-> store]
    ELSE IF t > store[key].expires
         THEN [value |-> <<>>,
               store |-> [k \in DOMAIN store \ {key} |-> store[k]]]
         ELSE [value |-> <<store[key].value>>, store |-> store]

\* MemoryKV.put with expirationTtl (seconds) at time t.
KvPut(store, key, value, ttl, t) ==
    MapSet(store, key, [value |-> value, expires |-> t + ttl * 1000])

\* MemoryKV.delete
KvDelete(store, key) == [k \in DOMAIN store \ {key} |-> store[k]]

\* Bug variant: login does not write the session.
createSession_notStored(store, userId, token, t) == store

createSession(store, userId, token, t) ==
    KvPut(store, SessionKey(token), userId, SessionTtlSeconds, t)

\* Bug variant: a successful lookup renews the session (sliding expiration).
getSessionUser_sliding(store, token, t) ==
    IF KvGet(store, SessionKey(token), t).value = <<>>
    THEN KvGet(store, SessionKey(token), t)
    ELSE [value |-> KvGet(store, SessionKey(token), t).value,
          store |-> KvPut(store, SessionKey(token),
                          KvGet(store, SessionKey(token), t).value[1],
                          SessionTtlSeconds, t)]

getSessionUser(store, token, t) == KvGet(store, SessionKey(token), t)

\* Bug variant: logout leaves the session in the store.
deleteSession_notDeleted(store, token) == store

deleteSession(store, token) == KvDelete(store, SessionKey(token))

(***************************************************************************)
(* AuthFlowController: the handlers.  Each handler is an operator from the *)
(* stores, the clock and the request to the stores afterwards and the      *)
(* response.  dbOk / kvOk say whether the relational store and the         *)
(* key-value store answer during the request.                              *)
(***************************************************************************)
LoginIpMaxAttempts == 10
LoginEmailMaxAttempts == 5
LoginWindowMs == 15 * 60 * 1000
RegisterMaxAttempts == 5
RegisterWindowMs == 60 * 60 * 1000

\* A message text; minutes and errors are the parts interpolated into it
\* (-1 and <<>> when it has none).
Message(text, minutes, errors) == [text |-> text, minutes |-> minutes, errors |-> errors]

\* Math.ceil(ms / 60000)
CeilMinutes(ms) == (ms + 59999) \div 60000

\* new SecurityError(code, statusCode, userMessage, internalMessage): message
\* is what super() was given, internalMessage || userMessage.
SecurityError(code, statusCode, userMessage, internalMessage) ==
    [security |-> TRUE, code |-> code, statusCode |-> statusCode,
     userMessage |-> userMessage,
     message |-> IF internalMessage = <<>> THEN userMessage ELSE internalMessage[1],
     stack |-> <<"stack", code>>]

\* Any other exception (a body that is not JSON, a failing store call).
OtherError(text) ==
    [security |-> FALSE, code |-> "INTERNAL", statusCode |-> 0,
     userMessage |-> Message("", -1, <<>>),
     message |-> Message(text, -1, <<>>),
     stack |-> <<"stack", text>>]

NoError ==
    [security |-> FALSE, code |-> "", statusCode |-> 0,
     userMessage |-> Message("", -1, <<>>), message |-> Message("", -1, <<>>),
     stack |-> <<>>]

\* crypto.randomUUID() of handleApiError: an opaque id.
RequestId == "request-uuid"

\* Bug variant: the body carries error.message.
handleApiError_leaksMessage(error) ==
    IF error.security
    THEN [status |-> error.statusCode,
          body |-> << <<"error", error.message>>, <<"requestId", RequestId>> >>]
    ELSE [status |-> 500,
          body |-> << <<"error", error.message>>, <<"requestId", RequestId>> >>]

\* handleApiError: the status and the JSON body (its members in order).
handleApiError(error) ==
    IF error.security
    THEN [status |-> error.statusCode,
          body |-> << <<"error", error.userMessage>>, <<"requestId", RequestId>> >>]
    ELSE [status |-> 500,
          body |-> << <<"error", Message("Internal server error", -1, <<>>)>>,
                      <<"requestId", RequestId>> >>]

\* What is recorded of a request and its response.  code is the SecurityError
\* code thrown ("INTERNAL" for any other exception, "" for none); cookie is the
\* Set-Cookie of the response ("none", "set", "clear"); token is the auth-token
\* presented (whoami, logout, tasks) or set (login); dbOk and kvOk tell
\* whether the stores were available, failed names the store whose call
\* failed while the request was handled ("none", "db", "kv"); thrown is the
\* error caught by the handler and body the JSON body of an error response;
\* header tells whether the request had a Cookie header.
NoOutcome ==
    [op |-> "none", token |-> <<>>, email |-> <<>>, password |-> <<>>,
     status |-> 0, code |-> "", cookie |-> "none", user |-> <<>>,
     remaining |-> -1, dbReads |-> 0, ipOver |-> FALSE, emailOver |-> FALSE,
     valid |-> FALSE, delayed |-> FALSE, dbOk |-> TRUE, kvOk |-> TRUE,
     failed |-> "none", thrown |-> NoError, body |-> <<>>, header |-> FALSE]

\* The error is thrown in the handler's try block: the catch clause answers
\* with handleApiError.
Throw(req, error) ==
    [req EXCEPT !.status = handleApiError(error).status, !.code = error.code,
                !.thrown = error, !.body = handleApiError(error).body]

\* The window of the key is open and has used up its attempts (history).
OverLimit(att, key, maxAttempts, t) ==
    /\ key \in DOMAIN att
    /\ t <= att[key].resetTime
    /\ att[key].count >= maxAttempts

\* The member's value, or the empty string when the object has none.
FieldOrEmpty(data, field) == IF HasField(data, field) THEN Field(data, field) ELSE <<>>

\* POST /api/auth/login
HandleLogin(att, us, kv, bk, t, ip, body, dbOk, kvOk) ==
    LET ipKey == <<"login", ip>>
        ipRate == checkRate(att, ipKey, LoginIpMaxAttempts, LoginWindowMs, t)
        data == body.data
        validation == validateInput(data, LoginRules)
        emailKey == <<"login:email", toLowerCase(FieldOrEmpty(data, "email"))>>
        emailRate == checkRate(ipRate.attempts, emailKey, LoginEmailMaxAttempts,
                               LoginWindowMs, t)
        found == getUserByEmail(us, bk, trim(toLowerCase(FieldOrEmpty(data, "email"))), dbOk)
        token == createJWT([userId |-> found[1].id, email |-> found[1].email],
                           JwtSecret, t)
        req == [NoOutcome EXCEPT
                   !.op = "login",
                   !.email = FieldOrEmpty(data, "email"),
                   !.password = FieldOrEmpty(data, "password"),
                   !.ipOver = OverLimit(att, ipKey, LoginIpMaxAttempts, t),
                   !.emailOver = /\ body.json
                                 /\ HasField(data, "email")
                                 /\ OverLimit(att, emailKey, LoginEmailMaxAttempts, t),
                   !.valid = body.json /\ validation.isValid,
                   !.dbOk = dbOk, !.kvOk = kvOk]
    IN IF ~ipRate.allowed
       THEN [attempts |-> ipRate.attempts, sessions |-> kv,
             out |-> [Throw(req, SecurityError("RATE_LIMIT_EXCEEDED", 429,
                              Message("Too many login attempts. Try again in N minutes.",
                                      CeilMinutes(getRemainingTime(ipRate.attempts, ipKey, t)),
                                      <<>>), <<>>))
                      EXCEPT !.remaining = getRemainingTime(ipRate.attempts, ipKey, t)]]
       ELSE IF ~body.json
       THEN [attempts |-> ipRate.attempts, sessions |-> kv,
             out |-> Throw(req, OtherError("request.json() failed"))]
       ELSE IF ~validation.isValid
       THEN [attempts |-> ipRate.attempts, sessions |-> kv,
             out |-> Throw(req, SecurityError("VALIDATION_ERROR", 400,
                              Message("Invalid email or password", -1, <<>>), <<>>))]
       ELSE IF ~emailRate.allowed
       THEN [attempts |-> emailRate.attempts, sessions |-> kv,
             out |-> Throw(req, SecurityError("EMAIL_RATE_LIMIT_EXCEEDED", 429,
                              Message("Too many attempts for this email. Please try again later.", -1, <<>>),
                              <<>>))]
       ELSE IF found = <<>>
       THEN [attempts |-> emailRate.attempts, sessions |-> kv,
             out |-> [Throw(req, SecurityError("INVALID_CREDENTIALS", 401,
                              Message("Invalid email or password", -1, <<>>), <<>>))
                      EXCEPT !.dbReads = 1, !.delayed = TRUE,
                             !.failed = IF dbOk THEN "none" ELSE "db"]]
       ELSE IF ~verifyPassword(Field(data, "password"), found[1].password_hash)
       THEN [attempts |-> emailRate.attempts, sessions |-> kv,
             out |-> [Throw(req, SecurityError("INVALID_CREDENTIALS", 401,
                              Message("Invalid email or password", -1, <<>>), <<>>))
                      EXCEPT !.dbReads = 1, !.delayed = TRUE]]
       ELSE IF ~kvOk
       THEN [attempts |-> emailRate.attempts, sessions |-> kv,
             out |-> [Throw(req, OtherError("kv.put failed"))
                      EXCEPT !.dbReads = 1, !.failed = "kv"]]
       ELSE [attempts |-> emailRate.attempts,
             sessions |-> createSession(kv, found[1].id, token, t),
             out |-> [req EXCEPT !.status = 200, !.cookie = "set",
                                 !.token = <<token>>, !.user = <<found[1].id>>,
                                 !.dbReads = 1]]

\* POST /api/auth/register
HandleRegister(att, us, bk, t, ip, body, salt, dbOk) ==
    LET ipKey == <<"register", ip>>
        ipRate == checkRate(att, ipKey, RegisterMaxAttempts, RegisterWindowMs, t)
        data == body.data
        validation == validateInput(data, RegisterRules)
        email == trim(toLowerCase(FieldOrEmpty(data, "email")))
        existing == getUserByEmail(us, bk, email, dbOk)
        created == createUser(us, bk, email, Field(data, "password"),
                              trim(Field(data, "displayName")),
                              salt, dbOk)
        req == [NoOutcome EXCEPT
                   !.op = "register",
                   !.email = FieldOrEmpty(data, "email"),
                   !.password = FieldOrEmpty(data, "password"),
                   !.ipOver = OverLimit(att, ipKey, RegisterMaxAttempts, t),
                   !.valid = body.json /\ validation.isValid,
                   !.dbOk = dbOk]
    IN IF ~ipRate.allowed
       THEN [attempts |-> ipRate.attempts, users |-> us,
             out |-> [Throw(req, SecurityError("RATE_LIMIT_EXCEEDED", 429,
                              Message("Too many registration attempts. Try again in N minutes.",
                                      CeilMinutes(getRemainingTime(ipRate.attempts, ipKey, t)),
                                      <<>>), <<>>))
                      EXCEPT !.remaining = getRemainingTime(ipRate.attempts, ipKey, t)]]
       ELSE IF ~body.json
       THEN [attempts |-> ipRate.attempts, users |-> us,
             out |-> Throw(req, OtherError("request.json() failed"))]
       ELSE IF ~validation.isValid
       THEN [attempts |-> ipRate.attempts, users |-> us,
             out |-> Throw(req, SecurityError("VALIDATION_ERROR", 400,
                              Message("Invalid input data", -1, <<>>),
                              <<Message("errors.join", -1, validation.errors)>>))]
       ELSE IF existing # <<>>
       THEN [attempts |-> ipRate.attempts, users |-> us,
             out |-> [Throw(req, SecurityError("USER_EXISTS", 409,
                              Message("An account with this email already exists", -1, <<>>),
                              <<>>))
                      EXCEPT !.dbReads = 1]]
       ELSE IF created.user = <<>>
       THEN [attempts |-> ipRate.attempts, users |-> us,
             out |-> [Throw(req, SecurityError("USER_CREATION_FAILED", 500,
                              Message("Failed to create user account", -1, <<>>), <<>>))
                      EXCEPT !.dbReads = 1,
                             !.failed = IF dbOk THEN "none" ELSE "db"]]
       ELSE [attempts |-> ipRate.attempts, users |-> created.users,
             out |-> [req EXCEPT !.status = 201, !.user = <<created.user[1].id>>,
                                 !.dbReads = 2]]

\* The Cookie header of a request: absent, or present with or without an
\* auth-token cookie.  header.token is <<>> or <<token>>.
NoCookieHeader == [header |-> FALSE, token |-> <<>>]
CookieWithoutToken == [header |-> TRUE, token |-> <<>>]
CookieWith(token) == [header |-> TRUE, token |-> <<token>>]

\* Bug variant: the session is looked up before the token is verified.
HandleWhoami_sessionFirst(us, kv, bk, t, cookie, dbOk, kvOk) ==
    LET req == [NoOutcome EXCEPT !.op = "whoami", !.token = cookie.token,
                                 !.header = cookie.header,
                                 !.dbOk = dbOk, !.kvOk = kvOk]
        token == cookie.token[1]
        payload == verifyJWT(token, JwtSecret, t)
        session == getSessionUser(kv, token, t)
        found == getUserById(us, bk, payload[1].userId, dbOk)
    IN IF ~cookie.header
       THEN [sessions |-> kv,
             out |-> Throw(req, SecurityError("NO_AUTH_COOKIE", 401,
                              Message("Authentication required", -1, <<>>), <<>>))]
       ELSE IF cookie.token = <<>>
       THEN [sessions |-> kv,
             out |-> Throw(req, SecurityError("NO_AUTH_TOKEN", 401,
                              Message("Authentication required", -1, <<>>), <<>>))]
       ELSE IF ~kvOk
       THEN [sessions |-> kv,
             out |-> [Throw(req, OtherError("kv.get failed")) EXCEPT !.failed = "kv"]]
       ELSE IF session.value = <<>>
       THEN [sessions |-> session.store,
             out |-> Throw(req, SecurityError("SESSION_NOT_FOUND", 401,
                              Message("Session has expired", -1, <<>>), <<>>))]
       ELSE IF payload = <<>>
       THEN [sessions |-> session.store,
             out |-> Throw(req, SecurityError("INVALID_TOKEN", 401,
                              Message("Invalid or expired authentication token", -1, <<>>), <<>>))]
       ELSE IF session.value[1] # payload[1].userId
       THEN [sessions |-> session.store,
             out |-> Throw(req, SecurityError("SESSION_NOT_FOUND", 401,
                              Message("Session has expired", -1, <<>>), <<>>))]
       ELSE IF found = <<>>
       THEN [sessions |-> session.store,
             out |-> [Throw(req, SecurityError("USER_NOT_FOUND", 404,
                              Message("User account not found", -1, <<>>), <<>>))
                      EXCEPT !.dbReads = 1,
                             !.failed = IF dbOk THEN "none" ELSE "db"]]
       ELSE IF ~found[1].is_active
       THEN [sessions |-> session.store,
             out |-> [Throw(req, SecurityError("USER_DEACTIVATED", 403,
                              Message("User account has been deactivated", -1, <<>>), <<>>))
                      EXCEPT !.dbReads = 1]]
       ELSE [sessions |-> session.store,
             out |-> [req EXCEPT !.status = 200, !.user = <<found[1].id>>,
                                 !.dbReads = 1]]

\* GET /api/auth/me
HandleWhoami(us, kv, bk, t, cookie, dbOk, kvOk) ==
    LET req == [NoOutcome EXCEPT !.op = "whoami", !.token = cookie.token,
                                 !.header = cookie.header,
                                 !.dbOk = dbOk, !.kvOk = kvOk]
        token == cookie.token[1]
        payload == verifyJWT(token, JwtSecret, t)
        session == getSessionUser(kv, token, t)
        found == getUserById(us, bk, payload[1].userId, dbOk)
    IN IF ~cookie.header
       THEN [sessions |-> kv,
             out |-> Throw(req, SecurityError("NO_AUTH_COOKIE", 401,
                              Message("Authentication required", -1, <<>>), <<>>))]
       ELSE IF cookie.token = <<>>
       THEN [sessions |-> kv,
             out |-> Throw(req, SecurityError("NO_AUTH_TOKEN", 401,
                              Message("Authentication required", -1, <<>>), <<>>))]
       ELSE IF payload = <<>>
       THEN [sessions |-> kv,
             out |-> Throw(req, SecurityError("INVALID_TOKEN", 401,
                              Message("Invalid or expired authentication token", -1, <<>>), <<>>))]
       ELSE IF ~kvOk
       THEN [sessions |-> kv,
             out |-> [Throw(req, OtherError("kv.get failed")) EXCEPT !.failed = "kv"]]
       ELSE IF session.value = <<>> \/ session.value[1] # payload[1].userId
       THEN [sessions |-> session.store,
             out |-> Throw(req, SecurityError("SESSION_NOT_FOUND", 401,
                              Message("Session has expired", -1, <<>>), <<>>))]
       ELSE IF found = <<>>
       THEN [sessions |-> session.store,
             out |-> [Throw(req, SecurityError("USER_NOT_FOUND", 404,
                              Message("User account not found", -1, <<>>), <<>>))
                      EXCEPT !.dbReads = 1,
                             !.failed = IF dbOk THEN "none" ELSE "db"]]
       ELSE IF ~found[1].is_active
       THEN [sessions |-> session.store,
             out |-> [Throw(req, SecurityError("USER_DEACTIVATED", 403,
                              Message("User account has been deactivated", -1, <<>>), <<>>))
                      EXCEPT !.dbReads = 1]]
       ELSE [sessions |-> session.store,
             out |-> [req EXCEPT !.status = 200, !.user = <<found[1].id>>,
                                 !.dbReads = 1]]

\* POST /api/auth/logout
HandleLogout(kv, cookie, kvOk) ==
    LET req == [NoOutcome EXCEPT !.op = "logout", !.token = cookie.token,
                                 !.kvOk = kvOk]
    IN IF ~cookie.header
       THEN [sessions |-> kv, out |-> [req EXCEPT !.status = 200]]
       ELSE IF cookie.token # <<>> /\ ~kvOk
       THEN [sessions |-> kv,
             out |-> [Throw(req, OtherError("kv.delete failed")) EXCEPT !.failed = "kv"]]
       ELSE [sessions |-> IF cookie.token # <<>>
                          THEN deleteSession(kv, cookie.token[1])
                          ELSE kv,
             out |-> [req EXCEPT !.status = 200, !.cookie = "clear"]]

\* authenticateRequest of the task handlers: <<user>> or <<>> for null.
authenticateRequest(us, bk, t, cookie, dbOk) ==
    IF ~cookie.header THEN <<>>
    ELSE IF cookie.token = <<>> THEN <<>>
    ELSE LET payload == verifyJWT(cookie.token[1], JwtSecret, t)
         IN IF payload = <<>> THEN <<>>
            ELSE getUserById(us, bk, payload[1].userId, dbOk)

\* GET / POST / PUT / DELETE /api/tasks, up to the authentication decision:
\* 401 when authenticateRequest returns null, otherwise the request goes on
\* to the task table as that user (recorded as status 200).
HandleTasks(us, bk, t, method, cookie, dbOk) ==
    LET user == authenticateRequest(us, bk, t, cookie, dbOk)
        req == [NoOutcome EXCEPT !.op = method, !.token = cookie.token,
                                 !.dbOk = dbOk]
    IN IF user = <<>>
       THEN [req EXCEPT !.status = 401, !.code = "Unauthorized"]
       ELSE [req EXCEPT !.status = 200, !.user = <<user[1].id>>, !.dbReads = 1]

TaskMethods == {"tasks.GET", "tasks.POST", "tasks.PUT", "tasks.DELETE"}

(***************************************************************************)
(* Requests                                                                *)
(***************************************************************************)
ClientIp == <<"i", "p", "1">>

EmailA == <<"a", "@", "x", ".", "c">>
EmailAUpper == <<"A", "@", "x", ".", "c">>
EmailB == <<"b", "@", "x", ".", "c">>
NotAnEmail == <<"a", "x">>

GoodPassword == <<"A", "a", "1", "!">> \o Repeat("a", 8)
WrongPassword == <<"B", "b", "1", "!">> \o Repeat("b", 8)
WeakPassword == <<"p">>
GoodName == <<"A", "b">>

MalformedBody == [json |-> FALSE, data |-> <<>>]
JsonBody(data) == [json |-> TRUE, data |-> data]

LoginBodies ==
    {MalformedBody, JsonBody(<<>>), JsonBody(<< <<"email", EmailA>> >>),
     JsonBody(<< <<"email", NotAnEmail>>, <<"password", GoodPassword>> >>)}
    \cup {JsonBody(<< <<"email", EmailA>>, <<"password", pw>> >>) :
              pw \in {GoodPassword, WrongPassword}}

RegisterBodies ==
    {MalformedBody, JsonBody(<<>>)}
    \cup {JsonBody(<< <<"email", e>>, <<"password", pw>>, <<"displayName", GoodName>> >>) :
              e \in {EmailA, EmailAUpper, EmailB, NotAnEmail},
              pw \in {GoodPassword, WeakPassword}}

\* Salts crypto.getRandomValues can draw.
SaltA == [i \in 1..SaltBytes |-> 5]
SaltB == [i \in 1..SaltBytes |-> 167]
Salts == {SaltA}

\* A token an attacker makes from one it has seen: signed with another key,
\* or with a segment appended.
Forgeries(token) ==
    { [token EXCEPT !.signature = signMessage(<<token.header, token.payload>>, OtherSecret)],
      [token EXCEPT !.segments = 4] }

Presentable == issued \cup UNION {Forgeries(token) : token \in issued}

Cookies == {NoCookieHeader, CookieWithoutToken} \cup {CookieWith(token) : token \in Presentable}

Did(op) == [NoOutcome EXCEPT !.op = op]

(***************************************************************************)
(* The handlers as steps of the server                                     *)
(***************************************************************************)
\* The users table of a fresh store: the development store seeds a demo user.
SeedUsers(bk) == IF bk = "memory" THEN <<DemoUser>> ELSE <<>>

\* The first registration, handled at time 0 on a fresh server.
FirstRegistration(bk) ==
    HandleRegister(<<>>, SeedUsers(bk), bk, 0, ClientIp,
                   JsonBody(<< <<"email", EmailA>>, <<"password", GoodPassword>>,
                               <<"displayName", GoodName>> >>),
                   SaltA, TRUE)

\* A server on either store, after the first user has registered.
AuthInit ==
    /\ now = 0
    /\ backend \in {"d1", "memory"}
    /\ attempts = FirstRegistration(backend).attempts
    /\ users = FirstRegistration(backend).users
    /\ sessions = <<>>
    /\ issued = {}
    /\ revoked = {}
    /\ last = FirstRegistration(backend).out
    /\ reqs = [login |-> 0, register |-> 1]
    /\ ticks = 0
    /\ rateMax = 0
    /\ rateWin = 0
    /\ rq = <<>>
    /\ opened = <<>>
    /\ admitted = <<>>
    /\ allowedLog = <<>>
    /\ lastRate = NoRateCall
    /\ made = {}
    /\ ClientIdle

\* One register request, handled.
RegisterRequest(ip, body, salt, dbOk) ==
    \E run \in {HandleRegister(attempts, users, backend, now, ip, body, salt, dbOk)} :
       /\ attempts' = run.attempts
       /\ users' = run.users
       /\ last' = run.out
       /\ reqs' = [reqs EXCEPT !.register = @ + 1]
       /\ UNCHANGED <<clientOnly, made, now, backend, sessions, issued, revoked, ticks, rateOnly>>

\* One login request, handled.
LoginRequest(ip, body, dbOk, kvOk) ==
    \E run \in {HandleLogin(attempts, users, sessions, backend, now, ip, body, dbOk, kvOk)} :
       /\ attempts' = run.attempts
       /\ sessions' = run.sessions
       /\ last' = run.out
       /\ issued' = IF run.out.cookie = "set" THEN issued \cup {run.out.token[1]} ELSE issued
       /\ revoked' = IF run.out.cookie = "set" THEN revoked \ {run.out.token[1]} ELSE revoked
       /\ reqs' = [reqs EXCEPT !.login = @ + 1]
       /\ UNCHANGED <<clientOnly, made, now, backend, users, ticks, rateOnly>>

\* One logout request, handled.  A token that was valid when it was logged
\* out is remembered as revoked.
LogoutRequest(cookie, kvOk) ==
    \E run \in {HandleLogout(sessions, cookie, kvOk)} :
       /\ sessions' = run.sessions
       /\ last' = run.out
       /\ revoked' = IF /\ run.out.cookie = "clear"
                        /\ cookie.token # <<>>
                        /\ verifyJWT(cookie.token[1], JwtSecret, now) # <<>>
                     THEN revoked \cup {cookie.token[1]}
                     ELSE revoked
       /\ UNCHANGED <<clientOnly, made, now, attempts, backend, users, issued, reqs, ticks, rateOnly>>

\* One whoami request, handled.
WhoamiRequest(cookie, dbOk, kvOk) ==
    \E run \in {HandleWhoami(users, sessions, backend, now, cookie, dbOk, kvOk)} :
       /\ sessions' = run.sessions
       /\ last' = run.out
       /\ UNCHANGED <<clientOnly, made, now, attempts, backend, users, issued, revoked, reqs, ticks, rateOnly>>

\* One request to a task handler, handled up to its authentication.
TaskRequest(method, cookie, dbOk) ==
    /\ last' = HandleTasks(users, backend, now, method, cookie, dbOk)
    /\ UNCHANGED <<clientOnly, made, now, attempts, backend, users, sessions, issued, revoked, reqs,
                   ticks, rateOnly>>

\* An administrator deactivates an account in the SQL database (the
\* development store has no statement that changes is_active).
Deactivate(i) ==
    /\ backend = "d1"
    /\ users[i].is_active
    /\ users' = [users EXCEPT ![i].is_active = FALSE]
    /\ last' = Did("deactivate")
    /\ UNCHANGED <<clientOnly, made, now, attempts, backend, sessions, issued, revoked, reqs, ticks, rateOnly>>

\* The clock advances by d milliseconds, up to the horizon of the run.
Tick(d, horizon) ==
    /\ ticks < MaxTicks
    /\ now + d <= horizon
    /\ ticks' = ticks + 1
    /\ now' = now + d
    /\ last' = Did("tick")
    /\ UNCHANGED <<clientOnly, made, attempts, backend, users, sessions, issued, revoked, reqs, rateOnly>>

\* Clock steps that separate the expiry of a session (to the millisecond)
\* from the expiry of its token (to the second).
LifecycleSteps == {ClockStepMs, SessionTtlSeconds * 1000 + ClockStepMs}

LifecycleHorizon == SessionTtlSeconds * 1000 + 2 * ClockStepMs

\* The logins of the session lifecycle: the registered user with the right
\* password or a wrong one.
LifecycleBodies ==
    {JsonBody(<< <<"email", EmailA>>, <<"password", pw>> >>) :
         pw \in {GoodPassword, WrongPassword}}

\* The session lifecycle of a registered user: a few logins (the key-value
\* store may fail while one is handled), then any number of whoami, logout
\* and task requests, deactivations and clock steps.
Next ==
    \/ \E body \in LifecycleBodies, kvOk \in BOOLEAN :
          /\ reqs.login < MaxLogins
          /\ LoginRequest(ClientIp, body, TRUE, kvOk)
    \/ \E cookie \in Cookies : LogoutRequest(cookie, TRUE)
    \/ \E cookie \in Cookies : WhoamiRequest(cookie, TRUE, TRUE)
    \/ \E method \in TaskMethods, cookie \in Cookies : TaskRequest(method, cookie, TRUE)
    \/ \E i \in 1..Len(users) : Deactivate(i)
    \/ \E d \in LifecycleSteps : Tick(d, LifecycleHorizon)

Spec == AuthInit /\ [][Next]_vars

\* Clock steps that separate a rejection at the last millisecond of a
\* rate-limit window from one inside it and from the first call after it.
LoginSteps == {1, LoginWindowMs}

LoginHorizon == 2 * LoginWindowMs

LoginInit == AuthInit /\ backend = "d1"

\* Login under its rate limits: login requests of every shape from one
\* address, and clock steps.
LoginNext ==
    \/ \E body \in LoginBodies :
          /\ reqs.login < MaxLoginAttempts
          /\ LoginRequest(ClientIp, body, TRUE, TRUE)
    \/ \E d \in LoginSteps : Tick(d, LoginHorizon)

SpecLogin == LoginInit /\ [][LoginNext]_vars

(***************************************************************************)
(* Properties of the session lifecycle (Spec)                              *)
(***************************************************************************)
\* The store holds an unexpired session for the token, bound to the user.
LiveSession(kv, token, userId, t) ==
    /\ SessionKey(token) \in DOMAIN kv
    /\ ~(t > kv[SessionKey(token)].expires)
    /\ kv[SessionKey(token)].value = userId

\* The table holds a deactivated account with this id / this address.
DeactivatedId(us, id) == \E i \in 1..Len(us) : us[i].id = id /\ ~us[i].is_active
DeactivatedEmail(us, email) ==
    \E i \in 1..Len(us) : us[i].email = trim(toLowerCase(email)) /\ ~us[i].is_active

\* The last request was such a request and it presented a token.
Presented(ops) == last.op \in ops /\ last.token # <<>>

\* C1: whoami and the four task handlers treat the caller as authenticated
\* only if the token passes verifyJWT and a live session for the token is
\* bound to the userId of the token's payload.
C1_AuthenticatedOnlyWithLiveSession ==
    (last.op \in {"whoami"} \cup TaskMethods /\ last.user # <<>>) =>
        /\ last.token # <<>>
        /\ verifyJWT(last.token[1], JwtSecret, now) # <<>>
        /\ LiveSession(sessions, last.token[1],
                       verifyJWT(last.token[1], JwtSecret, now)[1].userId, now)

\* A task handler has accepted a token after its session was deleted by logout.
C1_Witness ==
    /\ Presented(TaskMethods)
    /\ last.user # <<>>
    /\ last.token[1] \in revoked
    /\ SessionKey(last.token[1]) \notin DOMAIN sessions

\* C2: a whoami that presents a token logged out earlier (and not re-created
\* by a login since) is never answered 200; while the token is validly signed
\* and unexpired the answer is 401 SESSION_NOT_FOUND, not INVALID_TOKEN.
C2_LoggedOutTokenSessionNotFound ==
    (Presented({"whoami"}) /\ last.token[1] \in revoked) =>
        /\ last.status = 401
        /\ last.user = <<>>
        /\ verifyJWT(last.token[1], JwtSecret, now) # <<>>
              => last.code = "SESSION_NOT_FOUND"
        /\ verifyJWT(last.token[1], JwtSecret, now) = <<>>
              => last.code = "INVALID_TOKEN"

\* whoami has answered SESSION_NOT_FOUND to a logged-out, still valid token.
C2_Witness ==
    /\ Presented({"whoami"})
    /\ last.token[1] \in revoked
    /\ verifyJWT(last.token[1], JwtSecret, now) # <<>>
    /\ last.code = "SESSION_NOT_FOUND"

\* C3: login answers 200 exactly when it sets the cookie; the session of the
\* cookie's token is then stored and bound to the logged-in user, and a whoami
\* presenting the token right away answers 200 with the same user id; when
\* the key-value store fails no cookie is set.
C3_LoginCookieHasSession ==
    last.op = "login" =>
        /\ last.status = 200 <=> last.cookie = "set"
        /\ ~last.kvOk => last.cookie = "none"
        /\ last.cookie = "set" =>
              LET whoami == HandleWhoami(users, sessions, backend, now,
                                         CookieWith(last.token[1]), TRUE, TRUE).out
              IN /\ last.user # <<>>
                 /\ LiveSession(sessions, last.token[1], last.user[1], now)
                 /\ whoami.status = 200
                 /\ whoami.user = last.user

\* login has answered 200 and set the cookie.
C3_Witness == last.op = "login" /\ last.status = 200 /\ last.cookie = "set"

\* C4: a whoami presenting a valid token with a live session, for an account
\* that has been deactivated since the login, answers 403 USER_DEACTIVATED.
C4_DeactivatedWhoamiForbidden ==
    ( /\ Presented({"whoami"})
      /\ verifyJWT(last.token[1], JwtSecret, now) # <<>>
      /\ LiveSession(sessions, last.token[1],
                     verifyJWT(last.token[1], JwtSecret, now)[1].userId, now)
      /\ DeactivatedId(users, verifyJWT(last.token[1], JwtSecret, now)[1].userId) )
    => (last.status = 403 /\ last.code = "USER_DEACTIVATED")

\* whoami has answered 404 USER_NOT_FOUND for a deactivated account.
C4_Witness ==
    /\ Presented({"whoami"})
    /\ verifyJWT(last.token[1], JwtSecret, now) # <<>>
    /\ DeactivatedId(users, verifyJWT(last.token[1], JwtSecret, now)[1].userId)
    /\ last.status = 404
    /\ last.code = "USER_NOT_FOUND"

LoginIpKey == <<"login", ClientIp>>

\* The last request was a login rejected on the per-IP limit.
RejectedOnIpLimit ==
    last.op = "login" /\ last.status = 429 /\ last.code = "RATE_LIMIT_EXCEEDED"

\* C9 as stated: a login rejected on the per-IP limit answers 429
\* RATE_LIMIT_EXCEEDED and getRemainingTime of the key is strictly positive.
C9_IpRejectionRemainingPositive ==
    (last.op = "login" /\ last.code = "RATE_LIMIT_EXCEEDED") =>
        (last.status = 429 /\ last.remaining > 0)

\* C9, amended: within the first 15 minutes login rejects on the per-IP limit
\* exactly from the 11th request on, whatever became of the first 10; a
\* request is rejected on it exactly when the key's window is open and full;
\* the remaining time of a rejection is resetTime - now, which is positive
\* before resetTime and 0 at resetTime itself.
C9_IpRejectionRemainingNonNegative ==
    last.op = "login" =>
        /\ now <= LoginWindowMs =>
              (RejectedOnIpLimit <=> reqs.login > LoginIpMaxAttempts)
        /\ RejectedOnIpLimit <=> last.ipOver
        /\ RejectedOnIpLimit =>
              /\ last.remaining = attempts[LoginIpKey].resetTime - now
              /\ last.remaining >= 0
              /\ last.remaining > 0 <=> now < attempts[LoginIpKey].resetTime

\* The 11th login of a window has been rejected before the window's last
\* millisecond, after logins that succeeded and logins that failed.
C9_Witness ==
    /\ RejectedOnIpLimit
    /\ reqs.login = LoginIpMaxAttempts + 1
    /\ last.remaining > 0
    /\ issued # {}
    /\ LoginIpKey \in DOMAIN attempts
    /\ \E k \in DOMAIN attempts :
          k[1] = "login:email" /\ attempts[k].count > Cardinality(issued)

\* C10 as stated: a login whose IP key or email key is over its limit is
\* answered 429 whether or not its body is valid, and a login rejected by a
\* rate limit or by validation does not read the credential store.
C10_RateLimitsBeforeValidation ==
    last.op = "login" =>
        /\ (last.ipOver \/ last.emailOver) => last.status = 429
        /\ last.status \in {429, 400} => last.dbReads = 0

\* C10, amended: login checks the per-IP limit, then parses and validates
\* the body, then checks the per-email limit, then looks the credential up.
\* An over-limit IP key is answered 429 whatever the body; an unparsable body
\* is answered 500 and an invalid one 400 even when its email key is over
\* the limit; a valid body with an over-limit email key is answered 429; the
\* credential store is read only by requests that passed all of these.
C10_IpLimitValidationEmailLimitLookup ==
    last.op = "login" =>
        /\ last.ipOver => (last.status = 429 /\ last.code = "RATE_LIMIT_EXCEEDED")
        /\ (~last.ipOver /\ ~last.valid) =>
              \/ last.status = 400 /\ last.code = "VALIDATION_ERROR"
              \/ last.status = 500 /\ last.code = "INTERNAL"
        /\ (~last.ipOver /\ last.valid /\ last.emailOver) =>
              (last.status = 429 /\ last.code = "EMAIL_RATE_LIMIT_EXCEEDED")
        /\ last.dbReads > 0 <=> (~last.ipOver /\ last.valid /\ ~last.emailOver)

\* An invalid login body whose email key is over its limit has been answered
\* 400 without a read of the credential store.
C10_Witness ==
    /\ last.op = "login"
    /\ last.emailOver
    /\ ~last.ipOver
    /\ last.status = 400
    /\ last.dbReads = 0

(***************************************************************************)
(* Registration (SpecRegister)                                             *)
(***************************************************************************)
\* A fresh server on either store.
RegisterInit ==
    /\ now = 0
    /\ backend \in {"d1", "memory"}
    /\ attempts = <<>>
    /\ users = SeedUsers(backend)
    /\ sessions = <<>>
    /\ issued = {}
    /\ revoked = {}
    /\ last = Did("start")
    /\ reqs = [login |-> 0, register |-> 0]
    /\ ticks = 0
    /\ rateMax = 0
    /\ rateWin = 0
    /\ rq = <<>>
    /\ opened = <<>>
    /\ admitted = <<>>
    /\ allowedLog = <<>>
    /\ lastRate = NoRateCall
    /\ made = {}
    /\ ClientIdle

\* Register requests of every shape from one address, one after the other,
\* and deactivations.
RegisterNext ==
    \/ \E body \in RegisterBodies, salt \in Salts :
          /\ reqs.register < MaxRegisters
          /\ RegisterRequest(ClientIp, body, salt, TRUE)
    \/ \E i \in 1..Len(users) : Deactivate(i)

SpecRegister == RegisterInit /\ [][RegisterNext]_vars

\* The rows of the table with this (normalized) address.
RowsWithEmail(us, email) == SelectSeq(us, LAMBDA u : u.email = email)

\* A register request is handled in this step; it is not rate-limited, its
\* input is valid, and a record for its normalized address exists already.
RegisterOfTakenEmail ==
    /\ reqs'.register # reqs.register
    /\ ~last'.ipOver
    /\ last'.valid
    /\ RowsWithEmail(users, trim(toLowerCase(last'.email))) # <<>>

\* C11 as stated: a valid, not rate-limited register for an address that has
\* a record already answers 409 USER_EXISTS and leaves the records unchanged.
C11_SecondRegisterConflict ==
    [][ RegisterOfTakenEmail =>
            /\ last'.status = 409
            /\ last'.code = "USER_EXISTS"
            /\ users' = users ]_vars

\* C11, amended: such a register leaves the records unchanged; it answers
\* 409 USER_EXISTS while the account is active, and 500 USER_CREATION_FAILED
\* once the account has been deactivated.
C11_SecondRegisterRejected ==
    [][ RegisterOfTakenEmail =>
            /\ users' = users
            /\ IF DeactivatedEmail(users, last'.email)
               THEN last'.status = 500 /\ last'.code = "USER_CREATION_FAILED"
               ELSE last'.status = 409 /\ last'.code = "USER_EXISTS" ]_vars

\* A register for an address registered before, written in capitals, has
\* been answered 409 USER_EXISTS.
C11_Witness ==
    /\ last.op = "register"
    /\ last.email = EmailAUpper
    /\ last.status = 409
    /\ last.code = "USER_EXISTS"
    /\ Len(RowsWithEmail(users, EmailA)) = 1

(***************************************************************************)
(* Concurrent registration (SpecRegRace).  A request runs without          *)
(* interruption up to its await of getUserByEmail's query and its result,  *)
(* and again from createUser's INSERT to the response.                     *)
(***************************************************************************)
RegRequests == 1..NumRegRequests

IdleRegister == [pc |-> "idle", body |-> MalformedBody, out |-> NoOutcome]

\* Valid register bodies that normalize to the same address.
SameEmailBodies ==
    {JsonBody(<< <<"email", e>>, <<"password", GoodPassword>>,
                 <<"displayName", GoodName>> >>) : e \in {EmailA, EmailAUpper}}

RegRaceInit ==
    /\ now = 0
    /\ backend \in {"d1", "memory"}
    /\ attempts = <<>>
    /\ users = SeedUsers(backend)
    /\ sessions = <<>>
    /\ issued = {}
    /\ revoked = {}
    /\ last = Did("start")
    /\ reqs = [login |-> 0, register |-> 0]
    /\ ticks = 0
    /\ rateMax = 0
    /\ rateWin = 0
    /\ rq = [r \in RegRequests |-> IdleRegister]
    /\ opened = <<>>
    /\ admitted = <<>>
    /\ allowedLog = <<>>
    /\ lastRate = NoRateCall
    /\ made = {}
    /\ ClientIdle

\* Request r arrives and runs up to the result of its lookup: it is answered
\* at once unless the lookup found no user, in which case it goes on to
\* createUser.
RegisterLookup(r, body) ==
    LET run == HandleRegister(attempts, users, backend, now, ClientIp, body, SaltA, TRUE)
        goesOn == run.out.status = 201 \/ run.out.code = "USER_CREATION_FAILED"
    IN /\ rq[r].pc = "idle"
       /\ attempts' = run.attempts
       /\ rq' = [rq EXCEPT ![r] = IF goesOn
                                  THEN [pc |-> "insert", body |-> body, out |-> NoOutcome]
                                  ELSE [pc |-> "done", body |-> body, out |-> run.out]]
       /\ UNCHANGED <<clientOnly, made, now, rateMax, rateWin, opened, admitted, allowedLog, lastRate,
                      authOnly>>

\* Request r runs createUser against the table as it is now and answers.
RegisterInsert(r) ==
    LET data == rq[r].body.data
        created == createUser(users, backend, trim(toLowerCase(Field(data, "email"))),
                              Field(data, "password"),
                              trim(Field(data, "displayName")), SaltA, TRUE)
        req == [NoOutcome EXCEPT !.op = "register", !.email = Field(data, "email"),
                                 !.password = Field(data, "password"), !.valid = TRUE]
    IN /\ rq[r].pc = "insert"
       /\ users' = created.users
       /\ rq' = [rq EXCEPT ![r] =
                    [pc |-> "done", body |-> rq[r].body,
                     out |-> IF created.user = <<>>
                             THEN [Throw(req, SecurityError("USER_CREATION_FAILED", 500,
                                            Message("Failed to create user account",
                                                    -1, <<>>), <<>>))
                                   EXCEPT !.dbReads = 1]
                             ELSE [req EXCEPT !.status = 201,
                                              !.user = <<created.user[1].id>>,
                                              !.dbReads = 2]]]
       /\ UNCHANGED <<clientOnly, made, now, attempts, rateMax, rateWin, opened, admitted, allowedLog,
                      lastRate, backend, sessions, issued, revoked, last, reqs, ticks>>

RegRaceNext ==
    \/ \E r \in RegRequests, body \in SameEmailBodies : RegisterLookup(r, body)
    \/ \E r \in RegRequests : RegisterInsert(r)

SpecRegRace == RegRaceInit /\ [][RegRaceNext]_vars

\* The requests answered so far / answered 201 so far.
AnsweredRegisters == {r \in RegRequests : rq[r].pc = "done"}
CreatedRegisters == {r \in AnsweredRegisters : rq[r].out.status = 201}

\* C12: however concurrent register requests for one normalized address
\* interleave, the table holds at most one record for the address, at most
\* one request is answered 201, and every other request is answered
\* 409 USER_EXISTS.
C12_OneRecordPerEmail ==
    /\ Len(RowsWithEmail(users, EmailA)) <= 1
    /\ Cardinality(CreatedRegisters) <= 1
    /\ \A r \in AnsweredRegisters \ CreatedRegisters :
          rq[r].out.status = 409 /\ rq[r].out.code = "USER_EXISTS"

\* Two racing requests have both been answered 201 and the table holds two
\* records for the address.
C12_Witness ==
    /\ Cardinality(CreatedRegisters) >= 2
    /\ Len(RowsWithEmail(users, EmailA)) >= 2

(***************************************************************************)
(* Logout (Spec)                                                           *)
(***************************************************************************)
\* C13: with the stores available logout answers 200 to every request; when
\* a token is presented the response clears the cookie and the token's
\* session is absent afterwards; a repetition of the logout answers 200,
\* clears the cookie and leaves the session store as it is.
C13_LogoutIdempotent ==
    last.op = "logout" =>
        /\ last.status = 200
        /\ last.code = ""
        /\ last.token # <<>> =>
              LET again == HandleLogout(sessions, CookieWith(last.token[1]), TRUE)
              IN /\ last.cookie = "clear"
                 /\ SessionKey(last.token[1]) \notin DOMAIN sessions
                 /\ again.out = last
                 /\ again.sessions = sessions

\* A logout has deleted the session of a token that login had issued, while
\* the session of another token stays in the store.
C13_Witness ==
    /\ Presented({"logout"})
    /\ last.token[1] \in revoked
    /\ last.status = 200
    /\ last.cookie = "clear"
    /\ sessions # <<>>

(***************************************************************************)
(* The token codec on its own (SpecCodec): tokens are made, time passes,   *)
(* and tokens are verified as made or altered.                             *)
(***************************************************************************)
EmailAccented == <<"U+00E9", "@", "x", ".", "c">>

CodecPayloads ==
    {[userId |-> 1, email |-> EmailA], [userId |-> 2, email |-> EmailAccented]}

CodecSecrets == {JwtSecret, OtherSecret}

\* What a client can do to a token string before it presents it.
TokenVariants ==
    {"asMade", "extraSegment", "noSignature", "emptySignature", "notBase64",
     "emailChanged", "userIdChanged", "expChanged", "resigned"}

PayloadVariants == {"emailChanged", "userIdChanged", "expChanged"}

Altered(token, variant) ==
    CASE variant = "asMade" -> token
      [] variant = "extraSegment" -> [token EXCEPT !.segments = 4]
      [] variant = "noSignature" -> [token EXCEPT !.segments = 2]
      [] variant = "emptySignature" -> [token EXCEPT !.signature = EmptySegment]
      [] variant = "notBase64" -> [token EXCEPT !.signature = NotBase64]
      [] variant = "emailChanged" ->
            [token EXCEPT !.payload.email = <<"b">> \o Tail(token.payload.email)]
      [] variant = "userIdChanged" -> [token EXCEPT !.payload.userId = @ + 1]
      [] variant = "expChanged" -> [token EXCEPT !.payload.exp = @ + 1]
      [] variant = "resigned" ->
            [token EXCEPT !.signature =
                 signMessage(<<token.header, token.payload>>, OtherSecret)]

CodecInit ==
    /\ now = 0
    /\ made = {}
    /\ ClientIdle
    /\ last = Did("start")
    /\ ticks = 0
    /\ backend = "d1"
    /\ attempts = <<>>
    /\ users = <<>>
    /\ sessions = <<>>
    /\ issued = {}
    /\ revoked = {}
    /\ reqs = [login |-> 0, register |-> 0]
    /\ rateMax = 0
    /\ rateWin = 0
    /\ rq = <<>>
    /\ opened = <<>>
    /\ admitted = <<>>
    /\ allowedLog = <<>>
    /\ lastRate = NoRateCall

\* createJWT(payload, secret) is called.
CreateToken(payload, secret) ==
    LET call == [payload |-> payload, secret |-> secret, t |-> now,
                 token |-> createJWT(payload, secret, now)]
    IN /\ Cardinality(made) < MaxTokens
       /\ made' = made \cup {call}
       /\ last' = [op |-> "createJWT", source |-> call, variant |-> "asMade",
                   token |-> call.token, secret |-> secret, t |-> now,
                   result |-> <<>>]
       /\ UNCHANGED <<clientOnly, now, attempts, rateOnly, backend, users, sessions, issued,
                      revoked, reqs, ticks>>

\* verifyJWT(token, secret) is called on a token made earlier, as made or
\* altered.
VerifyToken(call, variant, secret) ==
    /\ last' = [op |-> "verifyJWT", source |-> call, variant |-> variant,
                token |-> Altered(call.token, variant), secret |-> secret, t |-> now,
                result |-> verifyJWT(Altered(call.token, variant), secret, now)]
    /\ UNCHANGED <<clientOnly, made, now, attempts, rateOnly, backend, users, sessions, issued,
                   revoked, reqs, ticks>>

\* Clock steps around the second in which a token expires.
CodecSteps == {ClockStepMs, 1000, TokenLifetimeSeconds * 1000}

CodecHorizon == TokenLifetimeSeconds * 1000 + 2000

CodecNext ==
    \/ \E payload \in CodecPayloads, secret \in CodecSecrets : CreateToken(payload, secret)
    \/ \E call \in made, variant \in TokenVariants, secret \in CodecSecrets :
          VerifyToken(call, variant, secret)
    \/ \E d \in CodecSteps : Tick(d, CodecHorizon)

SpecCodec == CodecInit /\ [][CodecNext]_vars

\* The last call verified a token exactly as createJWT made it, with the
\* secret it was made with.
VerifiedAsMade ==
    /\ last.op = "verifyJWT"
    /\ last.variant = "asMade"
    /\ last.secret = last.source.secret

\* The exp createJWT gave the token of the last call.
MadeExp == last.source.t \div 1000 + TokenLifetimeSeconds

\* C14: a token verified as made, with the secret it was made with, not later
\* than its exp, yields a payload with the userId and the email createJWT
\* was given and exp = iat + 7 x 86400.
C14_RoundTrip ==
    (VerifiedAsMade /\ last.t \div 1000 <= MadeExp) =>
        /\ last.result # <<>>
        /\ last.result[1].userId = last.source.payload.userId
        /\ last.result[1].email = last.source.payload.email
        /\ last.result[1].exp = last.result[1].iat + 7 * 86400

\* A token made for an address with an accented letter has been verified and
\* has come back with another address.
C14_Witness ==
    /\ VerifiedAsMade
    /\ last.result # <<>>
    /\ last.source.payload.email = EmailAccented
    /\ last.result[1].email # EmailAccented
    /\ last.result[1].userId = last.source.payload.userId

\* C15: verifyJWT returns null for every token that does not have exactly
\* three dot-separated segments.
C15_ExactlyThreeSegments ==
    (last.op = "verifyJWT" /\ last.token.segments # 3) => last.result = <<>>

\* A signed token with a fourth segment appended has been accepted.
C15_Witness ==
    /\ last.op = "verifyJWT"
    /\ last.variant = "extraSegment"
    /\ last.token.segments = 4
    /\ last.result # <<>>

\* C16: for a correctly signed token verifyJWT returns null exactly when
\* exp < now in whole seconds: at every such time, and at no time with
\* now <= exp.
C16_ExpiryToTheSecond ==
    VerifiedAsMade => (last.result = <<>> <=> MadeExp < last.t \div 1000)

\* A correctly signed token has been rejected in the first second after
\* its exp.
C16_Witness ==
    /\ VerifiedAsMade
    /\ last.result = <<>>
    /\ last.t \div 1000 = MadeExp + 1

\* C17: verifyJWT returns a payload only if the signature segment is the
\* HMAC under the given secret of the presented header and payload segments;
\* a token with its payload segment changed, or verified with a secret other
\* than the one that signed it, or with an undecodable signature, gives null.
C17_SignatureBindsPayload ==
    last.op = "verifyJWT" =>
        /\ last.result # <<>> =>
              last.token.signature =
                  signMessage(<<last.token.header, last.token.payload>>, last.secret)
        /\ (last.variant \in PayloadVariants \cup {"notBase64", "emptySignature"}) =>
              last.result = <<>>
        /\ (last.variant = "asMade" /\ last.secret # last.source.secret) =>
              last.result = <<>>

\* A token whose payload segment was changed to expire later has been
\* rejected before the exp it was made with.
C17_Witness ==
    /\ last.op = "verifyJWT"
    /\ last.variant = "expChanged"
    /\ last.secret = last.source.secret
    /\ last.t \div 1000 <= MadeExp
    /\ last.result = <<>>

(***************************************************************************)
(* The password hasher on its own (SpecHasher)                             *)
(***************************************************************************)
PasswordAccented == <<"p", "U+00E9">>
PasswordSurrogateA == <<"p", "U+D800">>
PasswordSurrogateB == <<"p", "U+D801">>

\* Passwords given to the hasher: two that differ in every letter, one with
\* a letter outside ASCII, two that differ in an unpaired surrogate.
HasherPasswords ==
    {GoodPassword, WrongPassword, PasswordAccented, PasswordSurrogateA,
     PasswordSurrogateB}

HasherSalts == {SaltA, SaltB}

HasherInit ==
    /\ now = 0
    /\ made = {}
    /\ ClientIdle
    /\ last = [op |-> "start", password |-> <<>>,
               source |-> [password |-> <<>>, salt |-> <<>>, hash |-> <<>>],
               result |-> FALSE]
    /\ ticks = 0
    /\ backend = "d1"
    /\ attempts = <<>>
    /\ users = <<>>
    /\ sessions = <<>>
    /\ issued = {}
    /\ revoked = {}
    /\ reqs = [login |-> 0, register |-> 0]
    /\ rateMax = 0
    /\ rateWin = 0
    /\ rq = <<>>
    /\ opened = <<>>
    /\ admitted = <<>>
    /\ allowedLog = <<>>
    /\ lastRate = NoRateCall

\* hashPassword(password) is called and draws the salt.
HashPassword(password, salt) ==
    \E call \in {[password |-> password, salt |-> salt,
                  hash |-> hashPassword(password, salt)]} :
       /\ Cardinality(made) < MaxHashes
       /\ made' = made \cup {call}
       /\ last' = [op |-> "hashPassword", password |-> password, source |-> call,
                   result |-> FALSE]
       /\ UNCHANGED <<clientOnly, now, attempts, rateOnly, backend, users, sessions, issued,
                      revoked, reqs, ticks>>

\* verifyPassword(password, hash) is called on a hash made earlier.
VerifyPassword(password, call) ==
    /\ last' = [op |-> "verifyPassword", password |-> password, source |-> call,
                result |-> verifyPassword(password, call.hash)]
    /\ UNCHANGED <<clientOnly, made, now, attempts, rateOnly, backend, users, sessions, issued,
                   revoked, reqs, ticks>>

HasherNext ==
    \/ \E password \in HasherPasswords, salt \in HasherSalts : HashPassword(password, salt)
    \/ \E password \in HasherPasswords, call \in made : VerifyPassword(password, call)

SpecHasher == HasherInit /\ [][HasherNext]_vars

\* C18: verifyPassword(p, hashPassword(p)) is true; verifyPassword(p1,
\* hashPassword(p2)) is false for every p1 # p2; two hashes of one password
\* made with different salts differ.
C18_VerifiesExactlyThePassword ==
    /\ last.op = "verifyPassword" =>
          (last.result <=> last.password = last.source.password)
    /\ \A a \in made, b \in made :
          (a.password = b.password /\ a.salt # b.salt) => a.hash # b.hash

\* A password has been verified against the hash of another password, from
\* which it differs in an unpaired surrogate, and has been accepted.
C18_Witness ==
    /\ last.op = "verifyPassword"
    /\ last.password = PasswordSurrogateA
    /\ last.source.password = PasswordSurrogateB
    /\ last.result

(***************************************************************************)
(* The handlers while a store is unavailable (SpecFault)                   *)
(***************************************************************************)
\* Register requests for the address that is taken and for a new one.
FaultRegisterBodies ==
    {JsonBody(<< <<"email", e>>, <<"password", GoodPassword>>,
                 <<"displayName", GoodName>> >>) : e \in {EmailA, EmailB}}

\* Register, login, logout and whoami requests; while one is handled the
\* relational store, the key-value store or both may be unavailable.
FaultNext ==
    \/ \E body \in FaultRegisterBodies, dbOk \in BOOLEAN :
          /\ reqs.register < MaxFaultRegisters
          /\ RegisterRequest(ClientIp, body, SaltA, dbOk)
    \/ \E body \in LifecycleBodies, dbOk \in BOOLEAN, kvOk \in BOOLEAN :
          /\ reqs.login < MaxLogins
          /\ LoginRequest(ClientIp, body, dbOk, kvOk)
    \/ \E cookie \in Cookies, kvOk \in BOOLEAN : LogoutRequest(cookie, kvOk)
    \/ \E cookie \in Cookies, dbOk \in BOOLEAN, kvOk \in BOOLEAN :
          WhoamiRequest(cookie, dbOk, kvOk)

SpecFault == AuthInit /\ [][FaultNext]_vars

\* C19: when a call to the relational store or to the key-value store fails
\* while register, login, logout or whoami is handled, the response is the
\* generic 500 'Internal server error'.
C19_StoreFailureIsGeneric500 ==
    (last.op \in {"register", "login", "logout", "whoami"} /\ last.failed # "none") =>
        (last.status = 500 /\ last.code = "INTERNAL")

\* A login with the right password for a registered address was handled
\* while the relational store was unavailable and was answered 401
\* INVALID_CREDENTIALS.
C19_Witness ==
    /\ last.op = "login"
    /\ last.failed = "db"
    /\ last.password = GoodPassword
    /\ \E i \in 1..Len(users) : users[i].email = last.email /\ users[i].is_active
    /\ last.status = 401
    /\ last.code = "INVALID_CREDENTIALS"

(***************************************************************************)
(* validateInput on its own (SpecValidator)                                *)
(***************************************************************************)
\* Values of the first field: empty, blank, and strings that fail the
\* email, minLength, maxLength and pattern checks in different combinations.
ValidatorValues ==
    { <<>>, <<" ">>, <<"a", "x">>, <<"a", "@">>, <<"a", "b", "c">>,
      <<"a", "@", "x", ".", "c">> }

\* Objects with or without the members "email" and "name".
ValidatorData ==
    {<<>>, << <<"name", <<"A">> >> >>}
    \cup { << <<"email", v>> >> : v \in ValidatorValues }
    \cup { << <<"email", v>>, <<"name", <<"A">> >> >> : v \in ValidatorValues }

\* Rules for "email" with every combination of options.
EmailFieldRules ==
    { Rule("email", required, type, minLength, maxLength, pattern) :
          required \in BOOLEAN, type \in {"none", "email"},
          minLength \in {0, RuleMinLength}, maxLength \in {0, RuleMaxLength},
          pattern \in {"none", "displayName"} }

\* Rules for "name": required or not, at least two characters.
NameFieldRules == { Rule("name", required, "none", 2, 0, "none") : required \in BOOLEAN }

\* Rule lists: one rule, or two rules for different fields in either order.
ValidatorRules ==
    { <<r>> : r \in EmailFieldRules }
    \cup { <<r, n>> : r \in EmailFieldRules, n \in NameFieldRules }
    \cup { <<n, r>> : r \in EmailFieldRules, n \in NameFieldRules }

\* The arguments of the call are drawn; nothing has been validated yet.
ValidatorInit ==
    /\ made \in { {[data |-> data, rules |-> rules]} :
                     data \in ValidatorData, rules \in ValidatorRules }
    /\ last = [op |-> "start", data |-> <<>>, rules |-> <<>>,
               result |-> [isValid |-> TRUE, errors |-> <<>>]]
    /\ now = 0
    /\ ClientIdle
    /\ ticks = 0
    /\ backend = "d1"
    /\ attempts = <<>>
    /\ users = <<>>
    /\ sessions = <<>>
    /\ issued = {}
    /\ revoked = {}
    /\ reqs = [login |-> 0, register |-> 0]
    /\ rateMax = 0
    /\ rateWin = 0
    /\ rq = <<>>
    /\ opened = <<>>
    /\ admitted = <<>>
    /\ allowedLog = <<>>
    /\ lastRate = NoRateCall

\* validateInput(data, rules) is called.
ValidateInput(call) ==
    /\ last.op = "start"
    /\ last' = [op |-> "validateInput", data |-> call.data, rules |-> call.rules,
                result |-> validateInput(call.data, call.rules)]
    /\ UNCHANGED <<clientOnly, made, now, attempts, rateOnly, backend, users, sessions, issued,
                   revoked, reqs, ticks>>

ValidatorNext == \E call \in made : ValidateInput(call)

SpecValidator == ValidatorInit /\ [][ValidatorNext]_vars

\* The checks in the order the claim gives them.
CheckOrder == <<"required", "email", "minLength", "maxLength", "pattern">>
CheckRank(check) == CHOOSE i \in 1..Len(CheckOrder) : CheckOrder[i] = check
RuleRank(rules, field) == CHOOSE i \in 1..Len(rules) : rules[i].field = field

\* The messages are in the order of the rules and, within a rule, of the
\* checks, and no message occurs twice.
InDeclarationOrder(errors, rules) ==
    \A i, j \in 1..Len(errors) :
        i < j =>
            \/ RuleRank(rules, errors[i][1]) < RuleRank(rules, errors[j][1])
            \/ /\ errors[i][1] = errors[j][1]
               /\ CheckRank(errors[i][2]) < CheckRank(errors[j][2])

MessagesOf(errors, field) == SelectSeq(errors, LAMBDA e : e[1] = field)

\* The field is required and absent, empty or blank.
FailsRequired(data, rule) ==
    /\ rule.required
    /\ \/ ~HasField(data, rule.field)
       \/ \A i \in 1..Len(Field(data, rule.field)) : Field(data, rule.field)[i] = " "

\* The check of the rule fails on the value.
CheckFails(rule, value, check) ==
    CASE check = "email" -> rule.type = "email" /\ ~IsEmail(value)
      [] check = "minLength" -> rule.minLength > 0 /\ Len(value) < rule.minLength
      [] check = "maxLength" -> rule.maxLength > 0 /\ Len(value) > rule.maxLength
      [] check = "pattern" -> rule.pattern # "none" /\ ~PatternTest(rule.pattern, value)
      [] OTHER -> FALSE

\* C20: the messages of validateInput are in rule-declaration order and,
\* per field, in the order required, type, minLength, maxLength, pattern,
\* one message for each failing check and none for a passing one; a field
\* that fails required gets exactly that message; a missing field that is
\* not required gets none; isValid is true exactly when there is no message.
C20_ValidationOrder ==
    last.op = "validateInput" =>
        /\ last.result.isValid <=> last.result.errors = <<>>
        /\ InDeclarationOrder(last.result.errors, last.rules)
        /\ \A k \in 1..Len(last.rules) :
              LET rule == last.rules[k]
                  messages == MessagesOf(last.result.errors, rule.field)
                  present == HasField(last.data, rule.field)
                             /\ Field(last.data, rule.field) # <<>>
              IN /\ FailsRequired(last.data, rule) =>
                       messages = << <<rule.field, "required">> >>
                 /\ (~rule.required /\ ~present) => messages = <<>>
                 /\ (present /\ ~FailsRequired(last.data, rule)) =>
                       \A c \in 1..Len(CheckOrder) :
                           (\E i \in 1..Len(messages) : messages[i][2] = CheckOrder[c])
                               <=> CheckFails(rule, Field(last.data, rule.field),
                                              CheckOrder[c])

\* A blank required value got the required message alone although it fails
\* other checks of its rule, and the other field's message follows it.
C20_Witness ==
    /\ last.op = "validateInput"
    /\ Len(last.rules) = 2
    /\ last.rules[1].field = "email"
    /\ last.rules[1].required
    /\ last.rules[1].type = "email"
    /\ last.rules[1].minLength = RuleMinLength
    /\ HasField(last.data, "email")
    /\ Field(last.data, "email") = <<" ">>
    /\ last.result.errors = << <<"email", "required">>, <<"name", "minLength">> >>
    /\ ~last.result.isValid

(***************************************************************************)
(* The error responses of the handlers (SpecErrors)                        *)
(***************************************************************************)
\* Requests of every shape to register, login, logout and whoami, some of
\* them handled while a store is unavailable.
ErrorsNext ==
    \/ \E body \in RegisterBodies, dbOk \in BOOLEAN :
          /\ reqs.register < MaxRegisters
          /\ RegisterRequest(ClientIp, body, SaltA, dbOk)
    \/ \E body \in LoginBodies, kvOk \in BOOLEAN :
          /\ reqs.login < MaxLogins
          /\ LoginRequest(ClientIp, body, TRUE, kvOk)
    \/ \E cookie \in Cookies, kvOk \in BOOLEAN : LogoutRequest(cookie, kvOk)
    \/ \E cookie \in Cookies, dbOk \in BOOLEAN, kvOk \in BOOLEAN :
          WhoamiRequest(cookie, dbOk, kvOk)

SpecErrors == AuthInit /\ [][ErrorsNext]_vars

\* C21: an error response of register, login, logout or whoami has a body
\* of exactly the members error and requestId; for a SecurityError the status
\* is its statusCode and error its userMessage, for any other error the
\* status is 500 and error is 'Internal server error'; the message of the
\* error (the internal message, the exception text) is not in the body when
\* it differs from the user-facing one.
C21_ErrorBodyIsSanitized ==
    (last.op \in {"register", "login", "logout", "whoami"} /\ last.status >= 400) =>
        /\ last.thrown.code # ""
        /\ Len(last.body) = 2
        /\ last.body[1][1] = "error"
        /\ last.body[2] = <<"requestId", RequestId>>
        /\ last.thrown.security =>
              /\ last.status = last.thrown.statusCode
              /\ last.body[1][2] = last.thrown.userMessage
        /\ ~last.thrown.security =>
              /\ last.status = 500
              /\ last.body[1][2] = Message("Internal server error", -1, <<>>)
        /\ last.thrown.message # last.thrown.userMessage =>
              last.body[1][2] # last.thrown.message

\* A register request with an invalid body was answered 400 'Invalid input
\* data' while the error thrown carried the list of validation errors.
C21_Witness ==
    /\ last.op = "register"
    /\ last.status = 400
    /\ last.thrown.code = "VALIDATION_ERROR"
    /\ last.thrown.message.errors # <<>>
    /\ last.body[1][2] = Message("Invalid input data", -1, <<>>)

(***************************************************************************)
(* Further properties of the session lifecycle (Spec)                      *)
(***************************************************************************)
\* The table holds an active account with this address.
ActiveEmail(us, email) ==
    \E i \in 1..Len(us) : us[i].email = trim(toLowerCase(email)) /\ us[i].is_active

\* The body of the response to a login with bad credentials.
BadCredentialsBody ==
    << <<"error", Message("Invalid email or password", -1, <<>>)>>,
       <<"requestId", RequestId>> >>

\* C22: a login for an address with no active account and a login with a
\* wrong password for an active account get the same response, 401 with the
\* same message, after the delay step; neither creates a session or sets a
\* cookie.
C22_BadCredentialsIndistinguishable ==
    [][ (/\ reqs'.login # reqs.login
         /\ last'.valid
         /\ \/ ~ActiveEmail(users, last'.email)
            \/ last'.password # GoodPassword) =>
            /\ last'.status = 401
            /\ last'.body = BadCredentialsBody
            /\ last'.delayed
            /\ last'.cookie = "none"
            /\ sessions' = sessions
            /\ issued' = issued ]_vars

\* A login with the right password for an address whose account is no
\* longer active was answered like a wrong password, after the delay.
C22_Witness ==
    /\ last.op = "login"
    /\ last.password = GoodPassword
    /\ ~ActiveEmail(users, last.email)
    /\ last.status = 401
    /\ last.body = BadCredentialsBody
    /\ last.delayed

\* C23: whoami and the task handlers write no session, extend no expiry
\* and leave the rate limiter alone; a session record appears or changes only
\* in a successful login, and disappears only in a logout or when it has
\* expired.
C23_SessionFixedAtLogin ==
    [][ /\ last'.op \in {"whoami"} \cup TaskMethods =>
              /\ attempts' = attempts
              /\ \A k \in DOMAIN sessions' :
                    k \in DOMAIN sessions /\ sessions'[k] = sessions[k]
        /\ \A k \in DOMAIN sessions' :
              (k \notin DOMAIN sessions \/ sessions'[k] # sessions[k]) =>
                  (last'.op = "login" /\ last'.status = 200)
        /\ \A k \in DOMAIN sessions \ DOMAIN sessions' :
              last'.op = "logout" \/ now > sessions[k].expires ]_vars

\* whoami has answered 200 some time after the login, and the session still
\* expires earlier than a session written now would.
C23_Witness ==
    /\ last.op = "whoami"
    /\ last.status = 200
    /\ SessionKey(last.token[1]) \in DOMAIN sessions
    /\ sessions[SessionKey(last.token[1])].expires < now + SessionTtlSeconds * 1000

(***************************************************************************)
(* Further properties of the rate limiter (SpecRate)                       *)
(***************************************************************************)
\* C24: a rejected checkRate call leaves the table as it was (the key's
\* count and resetTime included), and every checkRate call leaves the
\* records of all other keys as they were.
C24_RejectionChangesNothing ==
    lastRate.op = "check" =>
        /\ ~lastRate.allowed => attempts = lastRate.tableBefore
        /\ DOMAIN attempts \ {lastRate.key} = DOMAIN lastRate.tableBefore \ {lastRate.key}
        /\ \A k \in DOMAIN attempts \ {lastRate.key} :
              attempts[k] = lastRate.tableBefore[k]

\* A call on a key was rejected some time into its window, while the table
\* also held the record of another key.
C24_Witness ==
    /\ lastRate.op = "check"
    /\ ~lastRate.allowed
    /\ lastRate.key \in DOMAIN attempts
    /\ attempts[lastRate.key].resetTime < now + rateWin
    /\ \E k \in DOMAIN attempts : k # lastRate.key

(***************************************************************************)
(* The order of the checks of whoami (Spec)                                *)
(***************************************************************************)
\* The code of the first check of whoami that fails for a request with this
\* Cookie header against these stores at time t, "" when none fails.  The
\* checks, in order: Cookie header, auth-token cookie, token verified,
\* live session bound to the token's userId, user row found, user active.
FirstFailingCheck(us, kv, bk, t, header, token) ==
    IF ~header THEN "NO_AUTH_COOKIE"
    ELSE IF token = <<>> THEN "NO_AUTH_TOKEN"
    ELSE IF verifyJWT(token[1], JwtSecret, t) = <<>> THEN "INVALID_TOKEN"
    ELSE LET userId == verifyJWT(token[1], JwtSecret, t)[1].userId
             rows == RowsById(us, bk, userId)
         IN IF ~LiveSession(kv, token[1], userId, t) THEN "SESSION_NOT_FOUND"
            ELSE IF rows = <<>> THEN "USER_NOT_FOUND"
            ELSE IF ~rows[1].is_active THEN "USER_DEACTIVATED"
            ELSE ""

EmailSpellings ==
    {EmailA, EmailAUpper, <<" ">> \o EmailA, EmailA \o <<" ">>, EmailAUpper \o <<" ">>}

EmailKeyBodies ==
    {JsonBody(<< <<"email", e>>, <<"password", WrongPassword>> >>) : e \in EmailSpellings}

\* Logins of one account under every spelling of its address, and clock
\* steps.
EmailKeyNext ==
    \/ \E body \in EmailKeyBodies :
          /\ reqs.login < MaxLoginAttempts
          /\ LoginRequest(ClientIp, body, TRUE, TRUE)
    \/ \E d \in LoginSteps : Tick(d, LoginHorizon)

SpecEmailKey == LoginInit /\ [][EmailKeyNext]_vars

\* The keys of the per-email login limit in a table.
EmailKeys(att) == {k \in DOMAIN att : k[1] = "login:email"}

\* The last login reached the per-email check.
ReachedEmailCheck(out) ==
    /\ out.op = "login"
    /\ out.valid
    /\ out.code # "RATE_LIMIT_EXCEEDED"

\* C26: a login that reaches the per-email check counts against the key
\* of the lower-cased, trimmed address that the lookup uses, and against no
\* other; the table never holds two keys for one normalized address.
C26_EmailKeyIsNormalized ==
    [][ReachedEmailCheck(last') /\ reqs'.login # reqs.login =>
          LET key == <<"login:email", trim(toLowerCase(last'.email))>>
          IN /\ key \in DOMAIN attempts'
             /\ \A k \in EmailKeys(attempts') \ {key} :
                   k \in DOMAIN attempts /\ attempts'[k] = attempts[k]
             /\ IF last'.code = "EMAIL_RATE_LIMIT_EXCEEDED"
                THEN attempts'[key] = attempts[key]
                ELSE attempts'[key].count =
                        IF key \in DOMAIN attempts /\ ~(now > attempts[key].resetTime)
                        THEN attempts[key].count + 1
                        ELSE 1
             /\ \A k1, k2 \in EmailKeys(attempts') :
                   trim(k1[2]) = trim(k2[2]) => k1 = k2]_vars

\* A login under another spelling of the address was rejected by the
\* per-email limit.
C26_Witness ==
    /\ last.op = "login"
    /\ last.email # trim(toLowerCase(last.email))
    /\ last.code = "EMAIL_RATE_LIMIT_EXCEEDED"

(***************************************************************************)
(* The lifetime of a session against the lifetime of its token (Spec)      *)
(***************************************************************************)
\* C27: whoami never answers SESSION_NOT_FOUND for a token that login
\* issued, that was never logged out and that verifyJWT still accepts: the
\* session outlives the token.
C27_SessionOutlivesToken ==
    (/\ last.op = "whoami"
     /\ last.token # <<>>
     /\ last.token[1] \in issued \ revoked
     /\ verifyJWT(last.token[1], JwtSecret, now) # <<>>)
        => last.code # "SESSION_NOT_FOUND"

\* whoami has answered SESSION_NOT_FOUND for an issued token that was never
\* logged out, in the last second of the token's life.
C27_Witness ==
    /\ last.op = "whoami"
    /\ last.code = "SESSION_NOT_FOUND"
    /\ last.token # <<>>
    /\ last.token[1] \in issued \ revoked
    /\ verifyJWT(last.token[1], JwtSecret, now) # <<>>
    /\ now \div 1000 = verifyJWT(last.token[1], JwtSecret, now)[1].exp

\* C28: every successful login yields a token, and so a session key, that
\* no earlier login yielded, also when two logins of one user fall into the
\* same clock second.
C28_LoginsYieldDistinctTokens ==
    [][(/\ reqs'.login # reqs.login
        /\ last'.op = "login"
        /\ last'.status = 200) =>
          /\ last'.token[1] \notin issued
          /\ SessionKey(last'.token[1]) \notin DOMAIN sessions]_vars

(***************************************************************************)
(* The browser's task store (useTaskStore) against the tasks API.          *)
(* A store call runs in three steps: the call (up to its fetch), the API   *)
(* handling the request, and the continuation after the await.  The steps  *)
(* of different calls interleave freely.                                   *)
(***************************************************************************)
MaxCalls == 3           \* store calls started in one run

TaskTitles == {"a", "b"}

\* What a request can meet: the handler runs, the session is not accepted
\* (401), the handler's catch clause answers (500), or fetch rejects before
\* the request reaches the API.
Outcomes == {"ok", "unauthorized", "error", "network"}

serverSide == <<now, attempts, rateOnly, authOnly, made>>

RECURSIVE Reversed(_)
Reversed(seq) == IF seq = <<>> THEN <<>> ELSE Append(Reversed(Tail(seq)), Head(seq))

HasRow(rows, id) == \E i \in 1..Len(rows) : rows[i].id = id

\* The tasks API: the response to the call's request and the rows afterwards.
\* GET lists the rows newest first, POST inserts a row under a fresh id, PUT
\* and DELETE answer 404 for an id without a row.
TasksApi(srv, call, outcome) ==
    LET sent == [call EXCEPT !.stage = "answered"]
        row == [id |-> srv.nextId, title |-> call.title]
    IN IF outcome = "network" THEN [server |-> srv, call |-> [sent EXCEPT !.status = -1]]
       ELSE IF outcome = "unauthorized" THEN [server |-> srv, call |-> [sent EXCEPT !.status = 401]]
       ELSE IF outcome = "error" THEN [server |-> srv, call |-> [sent EXCEPT !.status = 500]]
       ELSE IF call.op = "fetchTasks"
       THEN [server |-> srv,
             call |-> [sent EXCEPT !.status = 200, !.tasks = Reversed(srv.tasks)]]
       ELSE IF call.op = "createTask"
       THEN [server |-> [srv EXCEPT !.tasks = Append(@, row), !.nextId = @ + 1],
             call |-> [sent EXCEPT !.status = 201, !.task = <<row>>]]
       ELSE IF ~HasRow(srv.tasks, call.id)
       THEN [server |-> srv, call |-> [sent EXCEPT !.status = 404]]
       ELSE IF call.op = "updateTask"
       THEN [server |-> [srv EXCEPT !.tasks =
                            [i \in 1..Len(@) |->
                                IF @[i].id = call.id
                                THEN [@[i] EXCEPT !.title = call.title]
                                ELSE @[i]]],
             call |-> [sent EXCEPT !.status = 200,
                                   !.task = <<[id |-> call.id, title |-> call.title]>>]]
       ELSE [server |-> [srv EXCEPT !.tasks = SelectSeq(@, LAMBDA r : r.id # call.id)],
             call |-> [sent EXCEPT !.status = 200]]

\* response.ok
ResponseOk(call) == call.status >= 200 /\ call.status <= 299

\* The part of a store action before its fetch.
TaskCallStarts(state) == [state EXCEPT !.isLoading = TRUE, !.error = <<>>]

\* fetchTasks after its fetch has settled.
fetchTasksSettles(state, call) ==
    IF call.status = -1
    THEN [state EXCEPT !.isLoading = FALSE, !.error = <<"fetch rejected">>]
    ELSE IF call.status = 401
    THEN [state EXCEPT !.isLoading = FALSE, !.error = <<"Please log in to view tasks">>]
    ELSE IF ~ResponseOk(call)
    THEN [state EXCEPT !.isLoading = FALSE, !.error = <<"Failed to fetch tasks">>]
    ELSE [state EXCEPT !.tasks = call.tasks, !.isLoading = FALSE]

\* createTask after its fetch has settled.
createTaskSettles(state, call) ==
    IF ResponseOk(call)
    THEN [state EXCEPT !.tasks = Append(@, call.task[1]), !.isLoading = FALSE]
    ELSE [state EXCEPT !.isLoading = FALSE]

\* updateTask after its fetch has settled.
updateTaskSettles(state, call) ==
    IF ResponseOk(call)
    THEN [state EXCEPT !.tasks = [i \in 1..Len(@) |->
                                     IF @[i].id = call.id THEN call.task[1] ELSE @[i]],
                       !.isLoading = FALSE]
    ELSE [state EXCEPT !.isLoading = FALSE]

\* deleteTask after its fetch has settled.
deleteTaskSettles(state, call) ==
    IF ResponseOk(call)
    THEN [state EXCEPT !.tasks = SelectSeq(@, LAMBDA task : task.id # call.id),
                       !.isLoading = FALSE]
    ELSE [state EXCEPT !.isLoading = FALSE]

\* A component calls a store action: the action runs up to its fetch.
StartTaskCall(op, id, title) ==
    /\ started < MaxCalls
    /\ started' = started + 1
    /\ taskState' = TaskCallStarts(taskState)
    /\ pending' = pending \cup {[NoCall EXCEPT !.n = started + 1, !.op = op, !.id = id,
                                                !.title = title, !.stage = "sent"]}
    /\ UNCHANGED <<authState, server, settled, serverSide>>

FetchTasksCall == StartTaskCall("fetchTasks", 0, "")
CreateTaskCall(title) == StartTaskCall("createTask", 0, title)
UpdateTaskCall(id, title) == StartTaskCall("updateTask", id, title)
DeleteTaskCall(id) == StartTaskCall("deleteTask", id, "")

\* The request of a call meets its outcome.
TasksApiAnswers(call, outcome) ==
    /\ call.stage = "sent"
    /\ \E run \in {TasksApi(server, call, outcome)} :
          /\ server' = run.server
          /\ pending' = (pending \ {call}) \cup {run.call}
    /\ UNCHANGED <<taskState, authState, started, settled, serverSide>>

\* The promise of a call's fetch settles and the rest of the action runs.
TaskCallSettles(call) ==
    /\ call.stage = "answered"
    /\ taskState' = CASE call.op = "fetchTasks" -> fetchTasksSettles(taskState, call)
                      [] call.op = "createTask" -> createTaskSettles(taskState, call)
                      [] call.op = "updateTask" -> updateTaskSettles(taskState, call)
                      [] call.op = "deleteTask" -> deleteTaskSettles(taskState, call)
    /\ pending' = pending \ {call}
    /\ settled' = call
    /\ UNCHANGED <<authState, server, started, serverSide>>

\* The ids the browser can name: those of the tasks in its list.
KnownIds == {taskState.tasks[i].id : i \in 1..Len(taskState.tasks)}

\* The stores as created, the API without rows; the server-side variables
\* rest.
TaskStoreInit == CodecInit

TaskStoreNext ==
    \/ FetchTasksCall
    \/ \E title \in TaskTitles : CreateTaskCall(title)
    \/ \E id \in KnownIds, title \in TaskTitles : UpdateTaskCall(id, title)
    \/ \E id \in KnownIds : DeleteTaskCall(id)
    \/ \E call \in pending, outcome \in Outcomes : TasksApiAnswers(call, outcome)
    \/ \E call \in pending : TaskCallSettles(call)

SpecTaskStore == TaskStoreInit /\ [][TaskStoreNext]_vars

\* The tasks of a list, whatever their order.
TaskSet(list) == {list[i] : i \in 1..Len(list)}

\* C29: once no store call is in flight, the list of the store holds
\* exactly the tasks the successful operations left on the server; in
\* particular the response of a fetchTasks requested before a createTask
\* completed does not remove the created task.
C29_QuietListMatchesServer ==
    pending = {} => TaskSet(taskState.tasks) = TaskSet(server.tasks)

\* Nothing is in flight, the call that settled last is a successful
\* fetchTasks, and a task created on the server is missing from the list.
C29_Witness ==
    /\ pending = {}
    /\ settled.op = "fetchTasks"
    /\ settled.status = 200
    /\ \E task \in TaskSet(server.tasks) : task \notin TaskSet(taskState.tasks)

(***************************************************************************)
(* The browser's auth store (useAuthStore) against the auth API.           *)
(***************************************************************************)
MaxAuthCalls == 2       \* auth store calls started in one run

\* The user object of a successful login or whoami response.
ApiUser == <<1>>

\* The auth API: the response to the call's request and the session
\* afterwards.  login answers 200 with the user only for good credentials,
\* whoami only while the browser's cookie has a session.
AuthApi(srv, call, outcome) ==
    LET sent == [call EXCEPT !.stage = "answered"]
    IN IF outcome = "network" THEN [server |-> srv, call |-> [sent EXCEPT !.status = -1]]
       ELSE IF outcome = "error" THEN [server |-> srv, call |-> [sent EXCEPT !.status = 500]]
       ELSE IF call.op = "login"
       THEN IF outcome = "ok" /\ call.good
            THEN [server |-> [srv EXCEPT !.signedIn = TRUE],
                  call |-> [sent EXCEPT !.status = 200, !.user = ApiUser]]
            ELSE [server |-> srv, call |-> [sent EXCEPT !.status = 401]]
       ELSE IF call.op = "register"
       THEN [server |-> srv,
             call |-> [sent EXCEPT !.status = IF outcome = "ok" /\ call.good
                                               THEN 201 ELSE 400]]
       ELSE IF call.op = "logout"
       THEN [server |-> [srv EXCEPT !.signedIn = FALSE],
             call |-> [sent EXCEPT !.status = 200]]
       ELSE IF outcome = "ok" /\ srv.signedIn
       THEN [server |-> srv, call |-> [sent EXCEPT !.status = 200, !.user = ApiUser]]
       ELSE [server |-> srv, call |-> [sent EXCEPT !.status = 401]]

\* setUser
setUser(state, user) == [state EXCEPT !.user = user, !.isAuthenticated = user # <<>>]

\* login after its fetch has settled.
loginSettles(state, call) ==
    IF ResponseOk(call)
    THEN [user |-> call.user, isAuthenticated |-> TRUE, isLoading |-> FALSE]
    ELSE [state EXCEPT !.isLoading = FALSE]

\* register after its fetch has settled.
registerSettles(state, call) == [state EXCEPT !.isLoading = FALSE]

\* Bug variant: the store is cleared only when the request succeeded.
logoutSettles_onlyOnSuccess(state, call) ==
    IF ResponseOk(call)
    THEN [user |-> <<>>, isAuthenticated |-> FALSE, isLoading |-> FALSE]
    ELSE [state EXCEPT !.isLoading = FALSE]

\* logout after its fetch has settled: the finally clause.
logoutSettles(state, call) ==
    [user |-> <<>>, isAuthenticated |-> FALSE, isLoading |-> FALSE]

\* checkAuth after its fetch has settled.
checkAuthSettles(state, call) ==
    IF ResponseOk(call)
    THEN [user |-> call.user, isAuthenticated |-> TRUE, isLoading |-> FALSE]
    ELSE [user |-> <<>>, isAuthenticated |-> FALSE, isLoading |-> FALSE]

\* A component calls setUser.
SetUserCall(user) ==
    /\ started < MaxAuthCalls
    /\ started' = started + 1
    /\ authState' = setUser(authState, user)
    /\ settled' = [NoCall EXCEPT !.n = started + 1, !.op = "setUser", !.user = user]
    /\ UNCHANGED <<taskState, server, pending, serverSide>>

\* A component calls login, register, logout or checkAuth: the action runs
\* up to its fetch.
StartAuthCall(op, good) ==
    /\ started < MaxAuthCalls
    /\ started' = started + 1
    /\ authState' = [authState EXCEPT !.isLoading = TRUE]
    /\ pending' = pending \cup {[NoCall EXCEPT !.n = started + 1, !.op = op,
                                                !.good = good, !.stage = "sent"]}
    /\ UNCHANGED <<taskState, server, settled, serverSide>>

LoginCall(good) == StartAuthCall("login", good)
RegisterCall(good) == StartAuthCall("register", good)
LogoutCall == StartAuthCall("logout", TRUE)
CheckAuthCall == StartAuthCall("checkAuth", TRUE)

\* The request of a call meets its outcome.
AuthApiAnswers(call, outcome) ==
    /\ call.stage = "sent"
    /\ \E run \in {AuthApi(server, call, outcome)} :
          /\ server' = run.server
          /\ pending' = (pending \ {call}) \cup {run.call}
    /\ UNCHANGED <<taskState, authState, started, settled, serverSide>>

\* The promise of a call's fetch settles and the rest of the action runs.
AuthCallSettles(call) ==
    /\ call.stage = "answered"
    /\ authState' = CASE call.op = "login" -> loginSettles(authState, call)
                      [] call.op = "register" -> registerSettles(authState, call)
                      [] call.op = "logout" -> logoutSettles(authState, call)
                      [] call.op = "checkAuth" -> checkAuthSettles(authState, call)
    /\ pending' = pending \ {call}
    /\ settled' = call
    /\ UNCHANGED <<taskState, server, started, serverSide>>

\* A page load: the store as created, or as the persist middleware restores
\* it from the user and isAuthenticated it saved; the cookie's session may
\* or may not still exist.
AuthStoreInit ==
    /\ now = 0
    /\ made = {}
    /\ last = Did("start")
    /\ ticks = 0
    /\ backend = "d1"
    /\ attempts = <<>>
    /\ users = <<>>
    /\ sessions = <<>>
    /\ issued = {}
    /\ revoked = {}
    /\ reqs = [login |-> 0, register |-> 0]
    /\ rateMax = 0
    /\ rateWin = 0
    /\ rq = <<>>
    /\ opened = <<>>
    /\ admitted = <<>>
    /\ allowedLog = <<>>
    /\ lastRate = NoRateCall
    /\ taskState = TaskStoreInitial
    /\ authState \in {AuthStoreInitial, setUser(AuthStoreInitial, ApiUser)}
    /\ server \in {[ServerInitial EXCEPT !.signedIn = b] : b \in BOOLEAN}
    /\ pending = {}
    /\ started = 0
    /\ settled = NoCall

AuthStoreNext ==
    \/ \E user \in {<<>>, ApiUser} : SetUserCall(user)
    \/ \E good \in BOOLEAN : LoginCall(good)
    \/ \E good \in BOOLEAN : RegisterCall(good)
    \/ LogoutCall
    \/ CheckAuthCall
    \/ \E call \in pending, outcome \in Outcomes : AuthApiAnswers(call, outcome)
    \/ \E call \in pending : AuthCallSettles(call)

SpecAuthStore == AuthStoreInit /\ [][AuthStoreNext]_vars

\* C30: whatever the interleaving of setUser, login, register, logout and
\* checkAuth, isAuthenticated is true exactly when user is not null; and
\* when logout has settled, with its request answered or failed, user is
\* null and isAuthenticated is false.
C30_AuthenticatedIffUser ==
    /\ authState.isAuthenticated <=> authState.user # <<>>
    /\ settled.op = "logout" =>
          authState.user = <<>> /\ ~authState.isAuthenticated

\* logout has just settled after its request failed, while another call is
\* still in flight.
C30_Witness ==
    /\ settled.op = "logout"
    /\ ~ResponseOk(settled)
    /\ pending # {}
    /\ authState.user = <<>>

====
